---- MODULE Spec2Model ----
(***************************************************************************)
(* bank2mqtt: incremental synchronisation of bank transactions.            *)
(*                                                                         *)
(* The model follows PowensClient.stream_new_transactions (client.py), a   *)
(* Python generator: it reads the checkpoint from the persistent Cache,    *)
(* fetches every page of the remote transaction list, removes duplicates   *)
(* and already processed identifiers, sorts by (date, id) and then, for    *)
(* each new transaction, writes the checkpoint to the cache and yields the *)
(* transaction to its consumer, which hands it to every handler.           *)
(*                                                                         *)
(* Further specifications follow the stream command of __main__.py         *)
(* (SpecDispatch: run_once hands a transaction to every handler) and the   *)
(* repository of db.py (SpecUpsert: upsert_accounts, upsert_transactions;  *)
(* SpecBalance: upsert_account_balance; SpecCycle: the calls of one cycle  *)
(* of writes), SpecClient (the generator with the min_date parameter, the   *)
(* shapes of the next link, failing requests and reset_streaming_state)    *)
(* and SpecScope (the cache directories of several clients). Each          *)
(* specification moves its own part of the state and leaves the others as  *)
(* they start.                                                             *)
(*                                                                         *)
(* Absent values (Python None, a missing cache key) are modelled as 0;     *)
(* identifiers and dates are positive integers (ISO dates of one format    *)
(* compare as strings exactly as the days they denote compare as numbers). *)
(***************************************************************************)
EXTENDS Integers, Sequences, FiniteSets, TLC

\* ---------------------------------------------------------------- bounds
MaxId == 3
MaxDate == 2
MaxLen == 3
MaxLimit == 2
NumSinks == 2
MaxCycles == 3
MaxAccounts == 2
MaxPayload == 2
MaxTime == 2
MaxText == 2
MaxCalls == 4
MaxRequests == 3
MaxOps == 3

None == 0
Ids == 1..MaxId
Dates == 1..MaxDate
Sinks == 1..NumSinks
Transaction == [id : Ids, date : Dates]

VARIABLES
    remote,                 \* the server's transaction list, in server order
    cache,                  \* the persistent Cache of the client's scope
    cacheWrites,            \* number of Cache.set calls of the current cycle
    pc,                     \* position of the generator / its consumer
    limit,                  \* the limit parameter of the cycle (page size)
    cursor,                 \* params["cursor"]: index of the page to request
    last_transaction_id,    \* checkpoint id as read at the start of the cycle
    last_transaction_date,  \* checkpoint date as read at the start of the cycle
    processed_ids,          \* ids already collected in this cycle
    new_transactions,       \* the collected, then sorted, new transactions
    fetched,                \* every record received in this cycle, in fetch order
    current_max_id,
    current_max_date,
    yielded_count,
    calls,                  \* <<id, sink>>: process_transaction calls of the cycle
    everNew,                \* ids collected as new by some cycle, ever
    lastCycle,              \* "fetch_failed" between a failed fetch and the
                            \* next cycle or change of the remote list;
                            \* "other" otherwise
    client                  \* what else is known of the client: a record of
                            \*   params         params["min_date"] of the cycle
                            \*   request_count  requests.get calls of the cycle
                            \*   pages          responses the cycle has worked on
                            \*   failure        how the request failed that ended
                            \*                  the last cycle, or "none"
                            \*   refreshes      authenticate() calls made by the
                            \*                  cycle
                            \*   stopped_by     what ended the pagination loop
                            \*   delivered      ids the consumer has handled, ever
                            \*   reset_pc       position of reset_streaming_state
                            \*   instances      the scopes of the PowensClient
                            \*                  objects constructed
                            \*   files          the checkpoint id in the cache
                            \*                  file of each cache directory
                            \*   ran            the instance whose cycle ran last

generatorVars == << remote, cache, cacheWrites, pc, limit, cursor,
                    last_transaction_id, last_transaction_date, processed_ids,
                    new_transactions, fetched, current_max_id, current_max_date,
                    yielded_count, calls, everNew, lastCycle >>

streamVars == << generatorVars, client >>

VARIABLES
    command,                \* the stream command (__main__.py): a record of
                            \*   config_ok      bank_client has domain, client_id
                            \*                  and client_secret
                            \*   handlers       the list setup_handlers returned
                            \*   loop           the --loop flag
                            \*   main_pc        position of stream
                            \*   cycle          number of run_once calls started
                            \*   event_index    position of `for transaction in
                            \*                  new_transactions`
                            \*   handler_index  position of `for handler in handlers`
                            \*   invocations    every process_transaction call
                            \*                  made, in order
                            \*   setup_done     setup_handlers has been called:
                            \*                  the handlers are constructed
                            \*   sleeps         number of time.sleep calls that
                            \*                  have returned
                            \*   handlers_config  the handlers section of
                            \*                  the configuration, per sink
                            \*   objects        the objects run_once has
                            \*                  built in its current call, with
                            \*                  their present content
                            \*   mqtt           the MqttHandler: whether its
                            \*                  client attribute is set, and the
                            \*                  calls made on it with their ends
    db                      \* the repository (db.py): a record of
                            \*   account_rows, transaction_rows, balance_rows
                            \*                  the rows of the three tables
                            \*   raised         the last call left with an exception
                            \*   db_call        name of the method called last
                            \*   payload        the list handed to the last upsert
                            \*   repeated       the last call repeated the successful
                            \*                  call before it
                            \*   balance_args   account_id and normalised last_update
                            \*                  of the last upsert_account_balance
                            \*   added          that call reached session.add
                            \*   db_pc          position of a cycle of writes
                            \*   cycle_wrote    a call of the current cycle
                            \*                  committed a change

vars == << streamVars, command, db >>

\* ------------------------------------------------------------ pure parts
Min(a, b) == IF a < b THEN a ELSE b

\* The page the server returns for a cursor: limit records of its list.
Page(rem, cur, lim) == SubSeq(rem, cur * lim + 1, Min(Len(rem), (cur + 1) * lim))

\* data["_links"]["next"] is present, with a cursor, while records remain
\* after the page.
HasNext(rem, cur, lim) == Len(rem) > (cur + 1) * lim

\* A dedup that never recognises a repeated identifier.
IsDuplicateNever(transaction_id, seen) == FALSE

\* client.py:404  transaction_id in processed_ids
IsDuplicate(transaction_id, seen) == transaction_id \in seen

\* The checkpoint filter with < in place of <=.
AlreadyProcessedStrict(transaction_id, last_id) ==
    last_id # None /\ transaction_id < last_id

\* client.py:409  last_transaction_id and transaction_id <= last_transaction_id
AlreadyProcessed(transaction_id, last_id) ==
    last_id # None /\ transaction_id <= last_id

\* client.py:400-417  the loop over one page: [new |-> appended, ids |-> set]
RECURSIVE CollectPage(_, _, _, _)
CollectPage(transactions, last_id, seen, acc) ==
    IF transactions = << >> THEN [new |-> acc, ids |-> seen]
    ELSE LET transaction == Head(transactions)
             rest == Tail(transactions)
         IN  IF IsDuplicate(transaction.id, seen)
                THEN CollectPage(rest, last_id, seen, acc)
             ELSE IF AlreadyProcessed(transaction.id, last_id)
                THEN CollectPage(rest, last_id, seen, acc)
             ELSE CollectPage(rest, last_id, seen \cup {transaction.id},
                              Append(acc, transaction))

\* client.py:366-440  the pagination loop of a whole cycle, from page cur on:
\* what a cycle that read the checkpoint id last_id collects as new.
RECURSIVE CollectFrom(_, _, _, _, _, _)
CollectFrom(rem, lim, cur, last_id, seen, acc) ==
    LET r == CollectPage(Page(rem, cur, lim), last_id, seen, acc)
    IN  IF HasNext(rem, cur, lim)
        THEN CollectFrom(rem, lim, cur + 1, last_id, r.ids, r.new)
        ELSE r.new

\* A sort key with the identifier first.
sort_key_id_first(tx) == << tx.id, tx.date >>

\* client.py:448-452  the sort key, a (date, id) tuple
sort_key(tx) == << tx.date, tx.id >>

\* Python's tuple comparison: lexicographic
TupleLess(k1, k2) == k1[1] < k2[1] \/ (k1[1] = k2[1] /\ k1[2] < k2[2])

\* list.sort(key=...) is a stable sort: insertion after the equal keys
RECURSIVE Insert(_, _)
Insert(sorted, tx) ==
    IF sorted = << >> THEN << tx >>
    ELSE IF TupleLess(sort_key(tx), sort_key(Head(sorted)))
            THEN << tx >> \o sorted
         ELSE << Head(sorted) >> \o Insert(Tail(sorted), tx)

RECURSIVE SortByKey(_)
SortByKey(txs) ==
    IF txs = << >> THEN << >>
    ELSE Insert(SortByKey(SubSeq(txs, 1, Len(txs) - 1)), txs[Len(txs)])

\* The maxima replaced by the value of the transaction at hand.
NewMaxIdLast(transaction_id, cur_max) == transaction_id

NewMaxDateLast(transaction_date, cur_max) == transaction_date

\* client.py:469-472
NewMaxId(transaction_id, cur_max) ==
    IF transaction_id # None /\ (cur_max = None \/ transaction_id > cur_max)
        THEN transaction_id ELSE cur_max

\* client.py:474-477
NewMaxDate(transaction_date, cur_max) ==
    IF transaction_date # None /\ (cur_max = None \/ transaction_date > cur_max)
        THEN transaction_date ELSE cur_max

\* ------------------------------------------------------------------ Init
\* client.py:338  params = {"limit": limit}: no min_date.
NoMinDate == [has_min_date |-> FALSE, min_date |-> None]

\* cache.py:17-39  a Cache over a new file: no _shelf attribute, no key.
Keys == {"k1", "k2"}

NewCache ==
    [shelf |-> "unset", inside |-> FALSE,
     data |-> [k \in Keys |-> [present |-> FALSE, value |-> "None"]],
     ops |-> << >>]

\* client.py:23-39  a client that was just constructed and has run no cycle.
NewClient ==
    [params |-> NoMinDate, request_count |-> 0, pages |-> 0,
     failure |-> "none", refreshes |-> 0, stopped_by |-> "none",
     delivered |-> {}, reset_pc |-> "none",
     instances |-> << >>, files |-> << >>, ran |-> 0,
     auth_token |-> "None", authenticate |-> "absent", requests |-> 0,
     last_call |-> [op |-> "none", outcome |-> "none"], calls_made |-> 0,
     received |-> << >>, yielded |-> << >>,
     reset_from |-> [last_transaction_id |-> None,
                     last_transaction_date |-> None],
     store |-> NewCache]

\* mqtt.py:15-42  an MqttHandler as __init__ leaves it: self.client = None.
NewMqttHandler == [client |-> FALSE, log |-> << >>]

\* __main__.py:286  run_once has not been entered: none of its objects exists.
NoObjects == [new_transactions |-> << >>, account_info |-> None]

\* The stream command is not part of a run of the client alone.
NoStreamCommand ==
    [config_ok |-> FALSE, handlers |-> << >>, loop |-> FALSE,
     main_pc |-> "off", cycle |-> 0, event_index |-> 0, handler_index |-> 0,
     invocations |-> << >>, setup_done |-> FALSE, sleeps |-> 0,
     mqtt |-> NewMqttHandler, handlers_config |->
         [s \in Sinks |-> [enabled |-> FALSE, key |-> "missing"]],
     objects |-> NoObjects]

\* db.py:233-240  a database that was just created: create_all, no rows.
NoRepository ==
    [account_rows |-> {}, transaction_rows |-> {}, balance_rows |-> {},
     raised |-> FALSE, db_call |-> "none", payload |-> << >>,
     repeated |-> FALSE,
     balance_args |-> [account_id |-> None, last_update |-> None],
     added |-> FALSE, db_pc |-> "off", cycle_wrote |-> FALSE]

Init ==
    /\ remote = << >>
    /\ cache = [last_transaction_id |-> None, last_transaction_date |-> None]
    /\ cacheWrites = 0
    /\ pc = "idle"
    /\ limit = 1
    /\ cursor = 0
    /\ last_transaction_id = None
    /\ last_transaction_date = None
    /\ processed_ids = {}
    /\ new_transactions = << >>
    /\ fetched = << >>
    /\ current_max_id = None
    /\ current_max_date = None
    /\ yielded_count = 0
    /\ calls = {}
    /\ everNew = {}
    /\ lastCycle = "other"
    /\ client = NewClient
    /\ command = NoStreamCommand
    /\ db = NoRepository

\* --------------------------------------------------------------- actions
\* The bank publishes one more transaction (between two cycles).
RemoteAdds ==
    /\ pc = "idle"
    /\ Len(remote) < MaxLen
    /\ \E tx \in Transaction : remote' = Append(remote, tx)
    /\ lastCycle' = "other"
    /\ UNCHANGED << cache, cacheWrites, pc, limit, cursor, last_transaction_id,
                    last_transaction_date, processed_ids, new_transactions,
                    fetched, current_max_id, current_max_date, yielded_count,
                    calls, everNew >>

\* client.py:327-364  a cycle starts: the checkpoint is read from the cache.
\* The min_date parameter (client.py:342-354) is set only for a checkpoint
\* with a date and no id, which no cycle leaves behind: the id is cached
\* first (client.py:480) and every identifier is truthy. StartCycleWithParams
\* has the parameter.
StartCycle ==
    /\ pc = "idle"
    /\ \E lim \in 1..MaxLimit : limit' = lim
    /\ last_transaction_id' = cache.last_transaction_id
    /\ last_transaction_date' = cache.last_transaction_date
    /\ calls' = {}
    /\ cacheWrites' = 0
    /\ pc' = "fetch"
    /\ lastCycle' = "other"
    /\ UNCHANGED << remote, cache, cursor, processed_ids, new_transactions,
                    fetched, current_max_id, current_max_date, yielded_count,
                    everNew >>

\* client.py:446-462  after the pagination loop: sort, start the yield loop
AfterFetch(collected) ==
    /\ new_transactions' = SortByKey(collected)
    /\ current_max_id' = last_transaction_id
    /\ current_max_date' = last_transaction_date
    /\ yielded_count' = 0
    /\ pc' = "loop"

\* client.py:366-440  one request of the pagination loop and its response
FetchPage ==
    /\ pc = "fetch"
    /\ LET transactions == Page(remote, cursor, limit)
           r == CollectPage(transactions, last_transaction_id, processed_ids,
                            new_transactions)
       IN  IF transactions = << >>
              THEN /\ AfterFetch(new_transactions)
                   /\ UNCHANGED << cursor, processed_ids, fetched, everNew >>
           ELSE /\ fetched' = fetched \o transactions
                /\ processed_ids' = r.ids
                /\ everNew' = everNew \cup r.ids
                /\ IF HasNext(remote, cursor, limit)
                      THEN /\ cursor' = cursor + 1
                           /\ new_transactions' = r.new
                           /\ UNCHANGED << pc, current_max_id, current_max_date,
                                           yielded_count >>
                   ELSE /\ AfterFetch(r.new)
                        /\ UNCHANGED cursor
    /\ UNCHANGED << remote, cache, cacheWrites, limit, last_transaction_id,
                    last_transaction_date, calls, lastCycle >>

\* The generator object is gone (returned, raised, closed or the process
\* ended): its locals and the consumer's per-cycle records with it.
EndCycle ==
    /\ pc' = "idle"
    /\ limit' = 1
    /\ cursor' = 0
    /\ last_transaction_id' = None
    /\ last_transaction_date' = None
    /\ processed_ids' = {}
    /\ new_transactions' = << >>
    /\ fetched' = << >>
    /\ current_max_id' = None
    /\ current_max_date' = None
    /\ yielded_count' = 0
    /\ calls' = {}
    /\ cacheWrites' = 0

\* A failing fetch that stores the progress of the pages already read.
FetchFailsKeepsProgress ==
    /\ pc = "fetch"
    /\ EndCycle
    /\ lastCycle' = "fetch_failed"
    /\ cache' = IF new_transactions = << >> THEN cache
                ELSE [cache EXCEPT !.last_transaction_id =
                          new_transactions[Len(new_transactions)].id]
    /\ UNCHANGED << remote, everNew >>

\* client.py:384-389  the request fails: HTTPError leaves the generator
FetchFails ==
    /\ pc = "fetch"
    /\ EndCycle
    /\ lastCycle' = "fetch_failed"
    /\ UNCHANGED << remote, cache, everNew >>

\* A yield loop that stores again the checkpoint id the cycle started with.
WriteIdKeepsCheckpoint ==
    /\ pc = "loop"
    /\ yielded_count < Len(new_transactions)
    /\ LET transaction == new_transactions[yielded_count + 1]
       IN  /\ current_max_id' = NewMaxId(transaction.id, current_max_id)
           /\ current_max_date' = NewMaxDate(transaction.date, current_max_date)
           /\ cache' = [cache EXCEPT !.last_transaction_id = last_transaction_id]
    /\ cacheWrites' = cacheWrites + 1
    /\ pc' = "write_date"
    /\ UNCHANGED << remote, limit, cursor, last_transaction_id,
                    last_transaction_date, processed_ids, new_transactions,
                    fetched, yielded_count, calls, everNew, lastCycle >>

\* client.py:464-480  top of the yield loop: the maxima, then the id is cached
WriteId ==
    /\ pc = "loop"
    /\ yielded_count < Len(new_transactions)
    /\ LET transaction == new_transactions[yielded_count + 1]
       IN  /\ current_max_id' = NewMaxId(transaction.id, current_max_id)
           /\ current_max_date' = NewMaxDate(transaction.date, current_max_date)
           /\ cache' = [cache EXCEPT !.last_transaction_id =
                            NewMaxId(transaction.id, current_max_id)]
    /\ cacheWrites' = cacheWrites + 1
    /\ pc' = "write_date"
    /\ UNCHANGED << remote, limit, cursor, last_transaction_id,
                    last_transaction_date, processed_ids, new_transactions,
                    fetched, yielded_count, calls, everNew, lastCycle >>

\* client.py:481-490  the date is cached when there is one, then the yield
WriteDateAndYield ==
    /\ pc = "write_date"
    /\ IF current_max_date # None
          THEN /\ cache' = [cache EXCEPT !.last_transaction_date = current_max_date]
               /\ cacheWrites' = cacheWrites + 1
       ELSE UNCHANGED << cache, cacheWrites >>
    /\ yielded_count' = yielded_count + 1
    /\ pc' = "yielded"
    /\ UNCHANGED << remote, limit, cursor, last_transaction_id,
                    last_transaction_date, processed_ids, new_transactions,
                    fetched, current_max_id, current_max_date, calls, everNew,
                    lastCycle >>

\* __main__.py:307-314  the consumer hands the yielded transaction to every
\* handler (a handler's exception is caught) and asks for the next one
Consume ==
    /\ pc = "yielded"
    /\ LET transaction == new_transactions[yielded_count]
       IN  calls' = calls \cup { << transaction.id, s >> : s \in Sinks }
    /\ pc' = "loop"
    /\ UNCHANGED << remote, cache, cacheWrites, limit, cursor,
                    last_transaction_id, last_transaction_date, processed_ids,
                    new_transactions, fetched, current_max_id, current_max_date,
                    yielded_count, everNew, lastCycle >>

\* client.py:490  the consumer raises while it handles the yielded
\* transaction: the suspended generator is never resumed
ConsumerFails ==
    /\ pc = "yielded"
    /\ EndCycle
    /\ lastCycle' = "other"
    /\ UNCHANGED << remote, cache, everNew >>

\* A generator that stores its final maxima once more before it returns.
StreamCompletedWritesCheckpoint ==
    /\ pc = "loop"
    /\ yielded_count = Len(new_transactions)
    /\ cache' = [cache EXCEPT !.last_transaction_id = current_max_id]
    /\ cacheWrites' = cacheWrites + 1
    /\ pc' = "idle"
    /\ lastCycle' = "other"
    /\ UNCHANGED << remote, limit, cursor, last_transaction_id,
                    last_transaction_date, processed_ids, new_transactions,
                    fetched, current_max_id, current_max_date, yielded_count,
                    calls, everNew >>

\* client.py:492-497  the loop is exhausted: the generator returns
StreamCompleted ==
    /\ pc = "loop"
    /\ yielded_count = Len(new_transactions)
    /\ EndCycle
    /\ lastCycle' = "other"
    /\ UNCHANGED << remote, cache, everNew >>

\* The process is terminated in the middle of a cycle; the cache file stays.
Kill ==
    /\ pc # "idle"
    /\ EndCycle
    /\ lastCycle' = "other"
    /\ UNCHANGED << remote, cache, everNew >>

Next ==
    \/ RemoteAdds /\ UNCHANGED << command, db, client >>
    \/ StartCycle /\ UNCHANGED << command, db, client >>
    \/ FetchPage /\ UNCHANGED << command, db, client >>
    \/ FetchFails /\ UNCHANGED << command, db, client >>
    \/ WriteId /\ UNCHANGED << command, db, client >>
    \/ WriteDateAndYield /\ UNCHANGED << command, db, client >>
    \/ Consume /\ UNCHANGED << command, db, client >>
    \/ ConsumerFails /\ UNCHANGED << command, db, client >>
    \/ StreamCompleted /\ UNCHANGED << command, db, client >>
    \/ Kill /\ UNCHANGED << command, db, client >>

Spec == Init /\ [][Next]_vars

TypeOK ==
    /\ cache.last_transaction_id \in 0..MaxId
    /\ cache.last_transaction_date \in 0..MaxDate
    /\ pc \in {"idle", "fetch", "loop", "write_date", "yielded"}
    /\ Len(remote) <= MaxLen

\* ------------------------------------- the client and its server, whole
\* Spec follows the client against a server that links every further page with
\* a cursor and never fails but by an HTTP error, and a cache that only the
\* generator writes. SpecClient is the same generator with the rest of what
\* client.py does around it: the min_date parameter, the shapes of the next
\* link, the ways a request fails, and reset_streaming_state.

\* client.py:342-354  the min_date parameter: the day before the checkpoint
\* date when there is a checkpoint date and no checkpoint id.
MinDateParam(last_id, last_date) ==
    IF last_date # None /\ last_id = None
    THEN [has_min_date |-> TRUE, min_date |-> last_date - 1]
    ELSE NoMinDate

\* client.py:372  the server answers the request with the transactions dated
\* min_date or later when the parameter is in the URL, with all otherwise.
Served(rem, params) ==
    IF params.has_min_date
    THEN SelectSeq(rem, LAMBDA tx : tx.date >= params.min_date)
    ELSE rem

\* client.py:380-381  the ways a request fails: requests.get raises Timeout or
\* ConnectionError, or raise_for_status raises for a 5xx, a 401 or another
\* 4xx status.
Failures == {"timeout", "connection", "5xx", "401", "4xx"}

Transient == {"timeout", "connection", "5xx"}

\* client.py:327-364  a cycle starts: StartCycle, and the parameters of the
\* request are set up; no reset_streaming_state is under way.
StartCycleWithParams ==
    /\ client.reset_pc = "none"
    /\ StartCycle
    /\ client' = [client EXCEPT
                     !.params = MinDateParam(cache.last_transaction_id,
                                             cache.last_transaction_date),
                     !.request_count = 0, !.pages = 0, !.failure = "none",
                     !.refreshes = 0, !.stopped_by = "none"]

\* client.py:366-440  one request of the pagination loop and its response.
\* The loop ends on an empty page, on a response without next link, and on a
\* next link whose href has no "cursor=" (next_link = "other").
FetchPageLinked ==
    /\ pc = "fetch"
    /\ \E next_link \in {"cursor", "other"} :
        LET rem == Served(remote, client.params)
            transactions == Page(rem, cursor, limit)
            r == CollectPage(transactions, last_transaction_id, processed_ids,
                             new_transactions)
            requested == [client EXCEPT !.request_count = @ + 1,
                                        !.pages = @ + 1]
        IN  IF transactions = << >>
               THEN /\ AfterFetch(new_transactions)
                    /\ client' = [requested EXCEPT !.stopped_by = "empty"]
                    /\ UNCHANGED << cursor, processed_ids, fetched, everNew >>
            ELSE /\ fetched' = fetched \o transactions
                 /\ processed_ids' = r.ids
                 /\ everNew' = everNew \cup r.ids
                 /\ IF ~HasNext(rem, cursor, limit)
                       THEN /\ AfterFetch(r.new)
                            /\ client' = [requested EXCEPT
                                             !.stopped_by = "no_next"]
                            /\ UNCHANGED cursor
                    ELSE IF next_link = "cursor"
                       THEN /\ cursor' = cursor + 1
                            /\ new_transactions' = r.new
                            /\ client' = requested
                            /\ UNCHANGED << pc, current_max_id,
                                            current_max_date, yielded_count >>
                    ELSE /\ AfterFetch(r.new)
                         /\ client' = [requested EXCEPT
                                          !.stopped_by = "no_cursor"]
                         /\ UNCHANGED cursor
    /\ UNCHANGED << remote, cache, cacheWrites, limit, last_transaction_id,
                    last_transaction_date, calls, lastCycle >>

\* client.py:378-389  a request fails: HTTPError is raised again, any other
\* exception of requests.get is not caught; either way it leaves the
\* generator after that one request.
FetchRaises ==
    /\ pc = "fetch"
    /\ EndCycle
    /\ lastCycle' = "fetch_failed"
    /\ \E kind \in Failures :
        client' = [client EXCEPT !.request_count = @ + 1, !.failure = kind]
    /\ UNCHANGED << remote, cache, everNew >>

\* __main__.py:307-314  Consume, and the transaction is on record as
\* delivered.
ConsumeDelivered ==
    /\ Consume
    /\ client' = [client EXCEPT
                     !.delivered = @ \cup {new_transactions[yielded_count].id}]

\* client.py:530-535  reset_streaming_state deletes the checkpoint id.
ResetDeletesId ==
    /\ pc = "idle"
    /\ client.reset_pc = "none"
    /\ cache' = [cache EXCEPT !.last_transaction_id = None]
    /\ client' = [client EXCEPT !.reset_pc = "id_deleted"]
    /\ UNCHANGED << remote, cacheWrites, pc, limit, cursor,
                    last_transaction_id, last_transaction_date, processed_ids,
                    new_transactions, fetched, current_max_id, current_max_date,
                    yielded_count, calls, everNew, lastCycle >>

\* client.py:536-538  reset_streaming_state deletes the checkpoint date.
ResetDeletesDate ==
    /\ client.reset_pc = "id_deleted"
    /\ cache' = [cache EXCEPT !.last_transaction_date = None]
    /\ client' = [client EXCEPT !.reset_pc = "none"]
    /\ UNCHANGED << remote, cacheWrites, pc, limit, cursor,
                    last_transaction_id, last_transaction_date, processed_ids,
                    new_transactions, fetched, current_max_id, current_max_date,
                    yielded_count, calls, everNew, lastCycle >>

\* client.py:535-536  the process ends between the two deletes; the first one
\* is on disk (cache.py:100-101).
ResetInterrupted ==
    /\ client.reset_pc = "id_deleted"
    /\ client' = [client EXCEPT !.reset_pc = "none"]
    /\ UNCHANGED << remote, cache, cacheWrites, pc, limit, cursor,
                    last_transaction_id, last_transaction_date, processed_ids,
                    new_transactions, fetched, current_max_id, current_max_date,
                    yielded_count, calls, everNew, lastCycle >>

NextClient ==
    \/ RemoteAdds /\ UNCHANGED << command, db, client >>
    \/ StartCycleWithParams /\ UNCHANGED << command, db >>
    \/ FetchPageLinked /\ UNCHANGED << command, db >>
    \/ FetchRaises /\ UNCHANGED << command, db >>
    \/ WriteId /\ UNCHANGED << command, db, client >>
    \/ WriteDateAndYield /\ UNCHANGED << command, db, client >>
    \/ ConsumeDelivered /\ UNCHANGED << command, db >>
    \/ StreamCompleted /\ UNCHANGED << command, db, client >>
    \/ ResetDeletesId /\ UNCHANGED << command, db >>
    \/ ResetDeletesDate /\ UNCHANGED << command, db >>
    \/ ResetInterrupted /\ UNCHANGED << command, db >>

SpecClient == Init /\ [][NextClient]_vars

\* ------------------------------------------------- the stream command
\* __main__.py:292-298  the transactions run_once works on: a literal list.
demo_transactions ==
    << [date |-> "2025-08-26", description |-> "Exemple de transaction",
        amount |-> "-99.99"] >>

\* __main__.py:185-246  setup_handlers appends the enabled handlers that
\* could be built, in the order mqtt, email, webhook, ntfy.
HandlerLists ==
    { h \in UNION { [1..n -> Sinks] : n \in 0..NumSinks } :
        \A i \in 1..Len(h) : \A j \in 1..Len(h) : i < j => h[i] < h[j] }

\* No generator object exists: the locals of stream_new_transactions and the
\* consumer's records are as EndCycle leaves them.
GeneratorIdle ==
    /\ cacheWrites = 0
    /\ pc = "idle"
    /\ limit = 1
    /\ cursor = 0
    /\ last_transaction_id = None
    /\ last_transaction_date = None
    /\ processed_ids = {}
    /\ new_transactions = << >>
    /\ fetched = << >>
    /\ current_max_id = None
    /\ current_max_date = None
    /\ yielded_count = 0
    /\ calls = {}
    /\ everNew = {}
    /\ lastCycle = "other"

\* No cycle of the generator has run.
NoGenerator ==
    /\ remote = << >>
    /\ cache = [last_transaction_id |-> None, last_transaction_date |-> None]
    /\ GeneratorIdle

\* The client is not part of a run of the stream command.
NoClient ==
    /\ NoGenerator
    /\ client = NewClient

\* __main__.py:260-284  stream is called with a configuration and a flag;
\* handlers is the list setup_handlers will build from that configuration
\* when it is called.
InitDispatch ==
    /\ NoClient
    /\ db = NoRepository
    /\ \E config_ok \in BOOLEAN : \E handlers \in HandlerLists :
        \E loop \in BOOLEAN :
            command = [NoStreamCommand EXCEPT
                         !.config_ok = config_ok, !.handlers = handlers,
                         !.loop = loop, !.main_pc = "start"]

\* A configuration check that comes after setup_handlers.
ConfigIncompleteAfterSetup ==
    /\ command.main_pc = "start"
    /\ ~command.config_ok
    /\ command' = [command EXCEPT !.main_pc = "exit_1", !.setup_done = TRUE]

\* __main__.py:264-270  incomplete bank_client configuration: sys.exit(1).
ConfigIncomplete ==
    /\ command.main_pc = "start"
    /\ ~command.config_ok
    /\ command' = [command EXCEPT !.main_pc = "exit_1"]

\* __main__.py:279-282  setup_handlers built no handler: sys.exit(0).
NoHandlers ==
    /\ command.main_pc = "start"
    /\ command.config_ok
    /\ command.handlers = << >>
    /\ command' = [command EXCEPT !.main_pc = "exit_0", !.setup_done = TRUE]

\* __main__.py:279-284, 317-332  setup_handlers built the handlers; the main
\* execution reaches its first run_once.
MainStarts ==
    /\ command.main_pc = "start"
    /\ command.config_ok
    /\ command.handlers # << >>
    /\ command' = [command EXCEPT !.main_pc = "run_once", !.setup_done = TRUE]

\* A loop that starts the next run_once without waiting.
AfterRunOnceNoSleep(c) == IF c.loop THEN "run_once" ELSE "returned"

\* __main__.py:325-332  run_once has returned: wait in loop mode, else end.
AfterRunOnce(c) == IF c.loop THEN "sleep" ELSE "returned"

\* __main__.py:286-307  run_once is entered; an empty list returns at once.
RunOnce ==
    /\ command.main_pc = "run_once"
    /\ command.cycle < MaxCycles
    /\ command' =
         IF demo_transactions = << >>
         THEN [command EXCEPT !.cycle = @ + 1,
                              !.main_pc = AfterRunOnce(command)]
         ELSE [command EXCEPT !.cycle = @ + 1, !.main_pc = "dispatch",
                              !.event_index = 1, !.handler_index = 1]

\* __main__.py:310-312  handler.process_transaction is called: the call is
\* added to those made; ok tells whether it returned or raised.
Called(c, ok) ==
    [c EXCEPT !.invocations =
        Append(@, [cycle |-> c.cycle, event |-> c.event_index,
                   transaction |-> demo_transactions[c.event_index],
                   sink |-> c.handlers[c.handler_index], ok |-> ok])]

\* __main__.py:307-308  the two for loops move on to the next handler, the
\* next transaction, or the end of run_once.
NextIteration(c) ==
    IF c.handler_index < Len(c.handlers)
    THEN [c EXCEPT !.handler_index = @ + 1]
    ELSE IF c.event_index < Len(demo_transactions)
    THEN [c EXCEPT !.event_index = @ + 1, !.handler_index = 1]
    ELSE [c EXCEPT !.main_pc = AfterRunOnce(c)]

\* A dispatcher that gives up the cycle when a handler raises.
ProcessTransactionAbortsOnError ==
    /\ command.main_pc = "dispatch"
    /\ \E ok \in BOOLEAN :
        command' = IF ok THEN NextIteration(Called(command, ok))
                   ELSE [Called(command, ok) EXCEPT
                             !.main_pc = AfterRunOnce(command)]

\* A dispatcher that calls a handler a second time when its first call raised.
ProcessTransactionRetriesOnce ==
    /\ command.main_pc = "dispatch"
    /\ \E ok \in BOOLEAN :
        command' =
          IF ok \/ \E k \in DOMAIN command.invocations :
                      /\ command.invocations[k].cycle = command.cycle
                      /\ command.invocations[k].event = command.event_index
                      /\ command.invocations[k].sink
                             = command.handlers[command.handler_index]
          THEN NextIteration(Called(command, ok))
          ELSE Called(command, ok)

\* A dispatcher without the try: a handler's exception ends the program.
ProcessTransactionPropagates ==
    /\ command.main_pc = "dispatch"
    /\ \E ok \in BOOLEAN :
        command' = IF ok THEN NextIteration(Called(command, ok))
                   ELSE [Called(command, ok) EXCEPT !.main_pc = "crashed"]

\* __main__.py:308-314  one handler is called with the transaction; it returns
\* or raises, `except Exception` swallows the exception, the loops go on.
ProcessTransaction ==
    /\ command.main_pc = "dispatch"
    /\ \E ok \in BOOLEAN :
        command' = NextIteration(Called(command, ok))

\* __main__.py:323-329  time.sleep(interval) ends; the while loop goes round.
Sleep ==
    /\ command.main_pc = "sleep"
    /\ command' = [command EXCEPT !.main_pc = "run_once", !.sleeps = @ + 1]

\* __main__.py:333-335  Ctrl+C: KeyboardInterrupt is no Exception, it leaves
\* the loops and ends the program with sys.exit(0).
KeyboardInterrupt ==
    /\ command.main_pc \in {"run_once", "dispatch", "sleep"}
    /\ command' = [command EXCEPT !.main_pc = "exit_0"]

NextDispatch ==
    \/ ConfigIncomplete /\ UNCHANGED << streamVars, db >>
    \/ NoHandlers /\ UNCHANGED << streamVars, db >>
    \/ MainStarts /\ UNCHANGED << streamVars, db >>
    \/ RunOnce /\ UNCHANGED << streamVars, db >>
    \/ ProcessTransaction /\ UNCHANGED << streamVars, db >>
    \/ Sleep /\ UNCHANGED << streamVars, db >>
    \/ KeyboardInterrupt /\ UNCHANGED << streamVars, db >>

SpecDispatch == InitDispatch /\ [][NextDispatch]_vars

\* __main__.py:317-332  the interpreter runs the statements of stream one after
\* the other: a run_once that is due is entered, a handler call that is due is
\* made and comes back, a sleep that was started returns. Ctrl+C may come at
\* any moment or never.
SpecDispatchLive ==
    /\ SpecDispatch
    /\ WF_vars(RunOnce /\ UNCHANGED << streamVars, db >>)
    /\ WF_vars(ProcessTransaction /\ UNCHANGED << streamVars, db >>)
    /\ WF_vars(Sleep /\ UNCHANGED << streamVars, db >>)

\* ------------------------------------------------------ the MQTT handler
\* A call on the handler and how it ended, added to the log.
Logged(h, op, outcome) ==
    [h EXCEPT !.log = Append(@, [op |-> op, outcome |-> outcome])]

\* mqtt.py:44-74  __enter__: a client is made and connected; when connect or
\* loop_start raises, the client is dropped and ConnectionError raised.
Enter(h, connects) ==
    IF connects
    THEN Logged([h EXCEPT !.client = TRUE], "__enter__", "returned")
    ELSE Logged([h EXCEPT !.client = FALSE], "__enter__", "ConnectionError")

\* An __exit__ that disconnects and keeps the client attribute.
ExitKeepsClient(h) ==
    IF ~h.client THEN Logged(h, "__exit__", "ValueError")
    ELSE Logged(h, "__exit__", "returned")

\* mqtt.py:76-84  __exit__: ValueError without a client; else the client is
\* stopped, disconnected and dropped.
Exit(h) ==
    IF ~h.client THEN Logged(h, "__exit__", "ValueError")
    ELSE Logged([h EXCEPT !.client = FALSE], "__exit__", "returned")

\* mqtt.py:86-96  process_transaction: ValueError without a client; else the
\* payload is published to the topic.
Publish(h) ==
    IF ~h.client THEN Logged(h, "process_transaction", "ValueError")
    ELSE Logged(h, "process_transaction", "published")

\* mqtt.py:15-42  a handler was constructed; nothing was called on it yet.
InitMqtt ==
    /\ NoClient
    /\ db = NoRepository
    /\ command = NoStreamCommand

CallEnter ==
    /\ Len(command.mqtt.log) < MaxCalls
    /\ \E connects \in BOOLEAN :
        command' = [command EXCEPT !.mqtt = Enter(@, connects)]

CallExit ==
    /\ Len(command.mqtt.log) < MaxCalls
    /\ command' = [command EXCEPT !.mqtt = Exit(@)]

CallProcessTransaction ==
    /\ Len(command.mqtt.log) < MaxCalls
    /\ command' = [command EXCEPT !.mqtt = Publish(@)]

NextMqtt ==
    \/ CallEnter /\ UNCHANGED << streamVars, db >>
    \/ CallExit /\ UNCHANGED << streamVars, db >>
    \/ CallProcessTransaction /\ UNCHANGED << streamVars, db >>

SpecMqtt == InitMqtt /\ [][NextMqtt]_vars

\* __main__.py:190-204  the position of the MQTT handler among the sinks:
\* setup_handlers builds it first.
MqttSink == 1

\* __main__.py:308-314 with mqtt.py:86-96  one handler is called with the
\* transaction. The MQTT handler, which setup_handlers constructed and on
\* which nothing else was called (__main__.py:194-201), answers as its
\* process_transaction does; any other handler returns or raises.
ProcessTransactionBySink ==
    /\ command.main_pc = "dispatch"
    /\ IF command.handlers[command.handler_index] = MqttSink
       THEN LET log == Publish(command.mqtt).log
            IN  command' = NextIteration(Called(command,
                               log[Len(log)].outcome = "published"))
       ELSE \E ok \in BOOLEAN :
                command' = NextIteration(Called(command, ok))

NextStream ==
    \/ ConfigIncomplete /\ UNCHANGED << streamVars, db >>
    \/ NoHandlers /\ UNCHANGED << streamVars, db >>
    \/ MainStarts /\ UNCHANGED << streamVars, db >>
    \/ RunOnce /\ UNCHANGED << streamVars, db >>
    \/ ProcessTransactionBySink /\ UNCHANGED << streamVars, db >>
    \/ Sleep /\ UNCHANGED << streamVars, db >>
    \/ KeyboardInterrupt /\ UNCHANGED << streamVars, db >>

SpecStream == InitDispatch /\ [][NextStream]_vars

\* ------------------------------------------------------ authentication
\* client.auth_token is the token or "None"; client.authenticate is the cache
\* entry 'authenticate': absent, or the response JSON, which has an
\* auth_token ("token") or has none ("no_token"). client.requests counts the
\* HTTP requests outside the pagination loop, client.last_call is the last
\* method called with how it ended, client.calls_made counts the calls.

\* client.py:23-43  a client was constructed over a cache file without an
\* 'authenticate' entry; the checkpoint is whatever earlier runs left.
InitAuth ==
    /\ remote = << >>
    /\ cache \in [last_transaction_id : {None} \cup Ids,
                   last_transaction_date : {None} \cup Dates]
    /\ GeneratorIdle
    /\ client = NewClient
    /\ command = NoStreamCommand
    /\ db = NoRepository

\* A method call and how it ended.
Returned(c, op, outcome) ==
    [c EXCEPT !.last_call = [op |-> op, outcome |-> outcome],
              !.calls_made = @ + 1]

\* client.py:45-84  authenticate: the cached entry is used when there is one;
\* else the request is made and, unless it fails, its JSON is cached
\* (line 70); then the token is taken from the data, ValueError without one
\* (lines 76-79).
authenticate(c, response) ==
    IF c.authenticate # "absent"
    THEN IF c.authenticate = "no_token"
         THEN Returned(c, "authenticate", "ValueError")
         ELSE Returned([c EXCEPT !.auth_token = "token"],
                       "authenticate", "returned")
    ELSE IF response = "error"
    THEN Returned([c EXCEPT !.requests = @ + 1],
                  "authenticate", "RequestException")
    ELSE IF response = "no_token"
    THEN Returned([c EXCEPT !.requests = @ + 1, !.authenticate = "no_token"],
                  "authenticate", "ValueError")
    ELSE Returned([c EXCEPT !.requests = @ + 1, !.authenticate = "token",
                            !.auth_token = "token"],
                  "authenticate", "returned")

Authenticate ==
    /\ pc = "idle"
    /\ client.calls_made < MaxCalls
    /\ \E response \in {"token", "no_token", "error"} :
        client' = authenticate(client, response)
    /\ UNCHANGED generatorVars

\* A check that lets every call pass.
ensure_authenticated_passes(c) == TRUE

\* client.py:267-273  _ensure_authenticated: passes with a token, else
\* RuntimeError.
ensure_authenticated(c) == c.auth_token # "None"

\* client.py:86, 143, 179, 209  the operations that make one request.
Operations ==
    {"get_temp_code", "list_accounts", "activate_account",
     "list_transactions"}

\* client.py:86-114, 143-177, 179-207, 209-265  an operation is called:
\* _ensure_authenticated first, then one request, whose failure is raised
\* again; get_temp_code raises ValueError on a response without code.
CallOperation ==
    /\ pc = "idle"
    /\ client.calls_made < MaxCalls
    /\ \E op \in Operations :
        IF ~ensure_authenticated(client)
        THEN client' = Returned(client, op, "RuntimeError")
        ELSE \E outcome \in {"returned", "RequestException", "ValueError"} :
                /\ outcome = "ValueError" => op = "get_temp_code"
                /\ client' = Returned([client EXCEPT !.requests = @ + 1],
                                      op, outcome)
    /\ UNCHANGED generatorVars

\* client.py:307-364  stream_new_transactions is called and its generator
\* advanced for the first time: _ensure_authenticated (line 328), then the
\* checkpoint is read and the cycle starts.
CallStream ==
    /\ pc = "idle"
    /\ client.calls_made < MaxCalls
    /\ IF ~ensure_authenticated(client)
       THEN /\ client' = Returned(client, "stream_new_transactions",
                                  "RuntimeError")
            /\ UNCHANGED generatorVars
       ELSE /\ StartCycle
            /\ client' =
                 Returned([client EXCEPT
                             !.params =
                                 MinDateParam(cache.last_transaction_id,
                                              cache.last_transaction_date),
                             !.request_count = 0, !.pages = 0,
                             !.stopped_by = "none"],
                          "stream_new_transactions", "started")

NextAuth ==
    \/ Authenticate /\ UNCHANGED << command, db >>
    \/ CallOperation /\ UNCHANGED << command, db >>
    \/ CallStream /\ UNCHANGED << command, db >>
    \/ FetchPageLinked /\ UNCHANGED << command, db >>
    \/ StreamCompleted /\ UNCHANGED << command, db, client >>

SpecAuth == InitAuth /\ [][NextAuth]_vars

\* ------------------------------------------------------ pagination
\* The lists a server may hold.
RemoteLists == UNION { [1..n -> Transaction] : n \in 0..MaxLen }

\* client.py:23-43  a client over an empty cache, and a server with a list.
InitPaging ==
    /\ remote \in RemoteLists
    /\ cache = [last_transaction_id |-> None, last_transaction_date |-> None]
    /\ GeneratorIdle
    /\ client = NewClient
    /\ command = NoStreamCommand
    /\ db = NoRepository

\* client.py:366-440  one request of the pagination loop and its response,
\* for a server that is free in its next link: none, one whose href has no
\* "cursor=", or one with any cursor, a used one included. The page is the
\* one of the cursor sent. The loop has the three breaks of lines 394-396,
\* 427-430 and 438-440 and no other end. request_count (line 367), which
\* only goes into log lines, is followed up to MaxRequests. (The record
\* `fetched` of the pages received is not continued here.)
FetchPageAnyLink ==
    /\ pc = "fetch"
    /\ \E next_link \in {"none", "other", "cursor"} :
      \E next_cursor \in 0..MaxLen :
        LET rem == Served(remote, client.params)
            transactions == Page(rem, cursor, limit)
            r == CollectPage(transactions, last_transaction_id, processed_ids,
                             new_transactions)
            requested == [client EXCEPT
                            !.request_count = Min(@ + 1, MaxRequests),
                            !.pages = Min(@ + 1, MaxRequests)]
        IN  IF transactions = << >>
               THEN /\ AfterFetch(new_transactions)
                    /\ client' = [requested EXCEPT !.stopped_by = "empty"]
                    /\ UNCHANGED << cursor, processed_ids, everNew >>
            ELSE /\ processed_ids' = r.ids
                 /\ everNew' = everNew \cup r.ids
                 /\ IF next_link = "none"
                       THEN /\ AfterFetch(r.new)
                            /\ client' = [requested EXCEPT
                                             !.stopped_by = "no_next"]
                            /\ UNCHANGED cursor
                    ELSE IF next_link = "other"
                       THEN /\ AfterFetch(r.new)
                            /\ client' = [requested EXCEPT
                                             !.stopped_by = "no_cursor"]
                            /\ UNCHANGED cursor
                    ELSE /\ cursor' = next_cursor
                         /\ new_transactions' = r.new
                         /\ client' = requested
                         /\ UNCHANGED << pc, current_max_id,
                                         current_max_date, yielded_count >>
    /\ UNCHANGED << remote, cache, cacheWrites, limit, last_transaction_id,
                    last_transaction_date, calls, lastCycle, fetched >>

NextPaging ==
    \/ StartCycleWithParams /\ UNCHANGED << command, db >>
    \/ FetchPageAnyLink /\ UNCHANGED << command, db >>
    \/ WriteId /\ UNCHANGED << command, db, client >>
    \/ WriteDateAndYield /\ UNCHANGED << command, db, client >>
    \/ ConsumeDelivered /\ UNCHANGED << command, db >>
    \/ StreamCompleted /\ UNCHANGED << command, db, client >>

\* The interpreter goes on with the loop: a request that is due is made and
\* answered. Nothing is assumed of what the server answers.
SpecPaging ==
    /\ InitPaging
    /\ [][NextPaging]_vars
    /\ WF_vars(FetchPageAnyLink /\ UNCHANGED << command, db >>)

\* ------------------------------------------------------ reset
\* client.received and client.yielded are the transactions the last stream
\* got from the server and those it yielded; client.reset_from is the
\* checkpoint that the last reset_streaming_state found.

\* client.py:499-508  get_last_transaction_id: Cache.get with default None.
get_last_transaction_id(c) == c.last_transaction_id

\* client.py:510-519  get_last_transaction_date: Cache.get with default None.
get_last_transaction_date(c) == c.last_transaction_date

\* cache.py:88-105  Cache.delete: the key is removed when it is there; the
\* call returns in both cases.
delete(c, key) ==
    IF key = "last_transaction_id"
    THEN [c EXCEPT !.last_transaction_id = None]
    ELSE [c EXCEPT !.last_transaction_date = None]

\* A reset that deletes the identifier alone.
reset_streaming_state_keeps_date(c) == delete(c, "last_transaction_id")

\* client.py:521-538  reset_streaming_state: both keys are deleted.
reset_streaming_state(c) ==
    delete(delete(c, "last_transaction_id"), "last_transaction_date")

\* client.py:464-482  the yield loop run to its end: the maxima after every
\* transaction of the sorted list, which are what the cache holds then.
RECURSIVE YieldAll(_, _, _)
YieldAll(transactions, max_id, max_date) ==
    IF transactions = << >>
    THEN [last_transaction_id |-> max_id, last_transaction_date |-> max_date]
    ELSE YieldAll(Tail(transactions),
                  NewMaxId(Head(transactions).id, max_id),
                  NewMaxDate(Head(transactions).date, max_date))

\* client.py:23-43  a client over an empty cache, and a server with a list.
InitReset ==
    /\ remote \in RemoteLists
    /\ cache = [last_transaction_id |-> None, last_transaction_date |-> None]
    /\ GeneratorIdle
    /\ client = [NewClient EXCEPT !.auth_token = "token"]
    /\ command = NoStreamCommand
    /\ db = NoRepository

\* client.py:521-538  reset_streaming_state is called between two cycles.
ResetStreamingState ==
    /\ pc = "idle"
    /\ client.calls_made < MaxCalls
    /\ cache' = reset_streaming_state(cache)
    /\ client' = Returned([client EXCEPT !.reset_from = cache],
                          "reset_streaming_state", "returned")
    /\ UNCHANGED << remote, cacheWrites, pc, limit, cursor,
                    last_transaction_id, last_transaction_date, processed_ids,
                    new_transactions, fetched, current_max_id,
                    current_max_date, yielded_count, calls, everNew,
                    lastCycle >>

\* client.py:307-497  stream_new_transactions is called and consumed to its
\* end, against a server that serves its list page after page: the checkpoint
\* is read, the parameters are set, the pages are collected and sorted, and
\* every transaction is yielded after the cache was written for it.
StreamToEnd ==
    /\ pc = "idle"
    /\ client.calls_made < MaxCalls
    /\ \E lim \in 1..MaxLimit :
        LET last_id == cache.last_transaction_id
            last_date == cache.last_transaction_date
            params == MinDateParam(last_id, last_date)
            served == Served(remote, params)
            sorted == SortByKey(CollectFrom(served, lim, 0, last_id,
                                            {}, << >>))
        IN  /\ cache' = YieldAll(sorted, last_id, last_date)
            /\ client' = Returned([client EXCEPT !.params = params,
                                                 !.received = served,
                                                 !.yielded = sorted],
                                  "stream_new_transactions", "returned")
    /\ UNCHANGED << remote, cacheWrites, pc, limit, cursor,
                    last_transaction_id, last_transaction_date, processed_ids,
                    new_transactions, fetched, current_max_id,
                    current_max_date, yielded_count, calls, everNew,
                    lastCycle >>

NextReset ==
    \/ ResetStreamingState /\ UNCHANGED << command, db >>
    \/ StreamToEnd /\ UNCHANGED << command, db >>

SpecReset == InitReset /\ [][NextReset]_vars

\* ------------------------------------------------------ the Cache
\* client.store is a Cache object with its file: shelf tells whether the
\* object has no _shelf attribute ("unset"), one that is an open shelf, or one
\* that is a closed shelf; inside tells whether the program is in a with-block
\* of the object; data is the content of the file, per key whether
\* it is stored and with which value ("None" is Python's None); ops are the
\* calls made on the object with their results.
Values == {"None", "v"}

\* A method call on the Cache and its result, added to ops.
Done(c, op, key, value, result) ==
    [c EXCEPT !.ops = Append(@, [op |-> op, key |-> key, value |-> value,
                                 result |-> result])]

\* cache.py:51-55  _get_shelf: the shelf is opened when the object has no
\* _shelf attribute; the attribute is returned as it is otherwise.
get_shelf(c) == IF c.shelf = "unset" THEN [c EXCEPT !.shelf = "open"] ELSE c

\* cache.py:57-69  set; a closed shelf raises ValueError on any access.
Cache_set(c, key, value) ==
    LET o == get_shelf(c)
    IN  IF o.shelf = "closed" THEN Done(o, "set", key, value, "ValueError")
        ELSE Done([o EXCEPT !.data[key] = [present |-> TRUE, value |-> value]],
                  "set", key, value, "None")

\* cache.py:71-86  get: the stored value, or the default.
Cache_get(c, key, default) ==
    LET o == get_shelf(c)
    IN  IF o.shelf = "closed" THEN "ValueError"
        ELSE IF o.data[key].present THEN o.data[key].value
        ELSE default

\* cache.py:88-105  delete: True when the key was there.
Cache_delete(c, key) ==
    LET o == get_shelf(c)
    IN  IF o.shelf = "closed" THEN Done(o, "delete", key, "None", "ValueError")
        ELSE IF o.data[key].present
        THEN Done([o EXCEPT !.data[key] = [present |-> FALSE,
                                           value |-> "None"]],
                  "delete", key, "None", "True")
        ELSE Done(o, "delete", key, "None", "False")

\* cache.py:107-118, 159-161  exists, which is also __contains__.
Cache_exists(c, key) ==
    LET o == get_shelf(c)
    IN  IF o.shelf = "closed" THEN "ValueError"
        ELSE IF o.data[key].present THEN "True" ELSE "False"

\* cache.py:120-126  clear.
Cache_clear(c) ==
    LET o == get_shelf(c)
    IN  IF o.shelf = "closed" THEN Done(o, "clear", "none", "None", "ValueError")
        ELSE Done([o EXCEPT !.data = NewCache.data],
                  "clear", "none", "None", "None")

\* A cache[key] that takes every None for a missing key.
Cache_getitem_none_is_missing(c, key) ==
    LET value == Cache_get(c, key, "None")
    IN  IF value = "None" THEN "KeyError" ELSE value

\* cache.py:143-148  __getitem__: KeyError when get gives None and the key
\* does not exist.
Cache_getitem(c, key) ==
    LET value == Cache_get(c, key, "None")
    IN  IF value = "None" /\ Cache_exists(c, key) # "True"
        THEN IF Cache_exists(c, key) = "ValueError" THEN "ValueError"
             ELSE "KeyError"
        ELSE value

\* cache.py:41-44  __enter__: a shelf is opened and kept as _shelf.
Cache_enter(c) ==
    Done([c EXCEPT !.shelf = "open", !.inside = TRUE],
         "__enter__", "none", "None", "self")

\* cache.py:46-49  __exit__: the shelf is closed; the attribute stays.
Cache_exit(c) ==
    Done([c EXCEPT !.shelf = IF @ = "unset" THEN "unset" ELSE "closed",
                   !.inside = FALSE],
         "__exit__", "none", "None", "None")

\* cache.py:172-177  close: the shelf is closed and the attribute deleted.
Cache_close(c) ==
    Done([c EXCEPT !.shelf = "unset"], "close", "none", "None", "None")

\* cache.py:17-39  a Cache was constructed over a new file.
InitCache ==
    /\ NoClient
    /\ command = NoStreamCommand
    /\ db = NoRepository

\* cache.py:57-69, 150-152  cache.set(key, value) or cache[key] = value.
CallSet ==
    /\ Len(client.store.ops) < MaxOps
    /\ \E key \in Keys : \E value \in Values :
        client' = [client EXCEPT !.store = Cache_set(@, key, value)]

\* cache.py:88-105  cache.delete(key).
CallDelete ==
    /\ Len(client.store.ops) < MaxOps
    /\ \E key \in Keys :
        client' = [client EXCEPT !.store = Cache_delete(@, key)]

\* cache.py:120-126  cache.clear().
CallClear ==
    /\ Len(client.store.ops) < MaxOps
    /\ client' = [client EXCEPT !.store = Cache_clear(@)]

\* cache.py:41-44  the with-block of the Cache is entered.
CallCacheEnter ==
    /\ Len(client.store.ops) < MaxOps
    /\ ~client.store.inside
    /\ client' = [client EXCEPT !.store = Cache_enter(@)]

\* cache.py:46-49  the with-block of the Cache is left.
CallCacheExit ==
    /\ Len(client.store.ops) < MaxOps
    /\ client.store.inside
    /\ client' = [client EXCEPT !.store = Cache_exit(@)]

\* cache.py:172-177  cache.close().
CallCacheClose ==
    /\ Len(client.store.ops) < MaxOps
    /\ client' = [client EXCEPT !.store = Cache_close(@)]

\* The Cache in use as a map.
NextCache ==
    \/ CallSet /\ UNCHANGED << generatorVars, command, db >>
    \/ CallDelete /\ UNCHANGED << generatorVars, command, db >>
    \/ CallClear /\ UNCHANGED << generatorVars, command, db >>

SpecCache == InitCache /\ [][NextCache]_vars

\* The Cache in use as a map, with-blocks and close() included.
NextShelf ==
    \/ CallSet /\ UNCHANGED << generatorVars, command, db >>
    \/ CallDelete /\ UNCHANGED << generatorVars, command, db >>
    \/ CallClear /\ UNCHANGED << generatorVars, command, db >>
    \/ CallCacheEnter /\ UNCHANGED << generatorVars, command, db >>
    \/ CallCacheExit /\ UNCHANGED << generatorVars, command, db >>
    \/ CallCacheClose /\ UNCHANGED << generatorVars, command, db >>

SpecShelf == InitCache /\ [][NextShelf]_vars

\* ------------------------------------------------------ shared objects
\* __main__.py:292-299  the objects a call of run_once builds.
BuiltObjects ==
    [new_transactions |-> demo_transactions,
     account_info |-> [name |-> "Compte courant", currency |-> "EUR"]]

\* __main__.py:286-307  run_once is entered and builds its objects; an empty
\* list returns at once.
RunOnceBuilds ==
    /\ command.main_pc = "run_once"
    /\ command.cycle < MaxCycles
    /\ command' =
         IF demo_transactions = << >>
         THEN [command EXCEPT !.cycle = @ + 1, !.objects = BuiltObjects,
                              !.main_pc = AfterRunOnce(command)]
         ELSE [command EXCEPT !.cycle = @ + 1, !.main_pc = "dispatch",
                              !.objects = BuiltObjects,
                              !.event_index = 1, !.handler_index = 1]

\* What the process_transaction of a Handler subclass (handler.py:1-10) may
\* do with its argument: leave it, rebind a key of the outer dict, or assign
\* into the transaction or the account dict it refers to.
Assignments == {"none", "data", "transaction", "account"}

\* The objects of run_once after the handler's assignment. The outer dict is
\* made in the call expression (__main__.py:310-312) and is no object of
\* run_once; its two values are run_once's own transaction and account dict.
Assigned(objects, event, assignment) ==
    IF assignment = "transaction"
    THEN [objects EXCEPT !.new_transactions[event].amount = "0.00"]
    ELSE IF assignment = "account"
    THEN [objects EXCEPT !.account_info.name = "Autre compte"]
    ELSE objects

\* __main__.py:307-314  one handler is called with a new dict that refers to
\* the transaction and the account dict; the call is added to those made,
\* with the content the handler found at its entry.
ProcessTransactionShared ==
    /\ command.main_pc = "dispatch"
    /\ \E ok \in BOOLEAN : \E assignment \in Assignments :
        LET event == command.event_index
            data == [transaction |-> command.objects.new_transactions[event],
                     account |-> command.objects.account_info]
            call == [cycle |-> command.cycle, event |-> event,
                     transaction |-> data.transaction,
                     account |-> data.account,
                     sink |-> command.handlers[command.handler_index],
                     ok |-> ok]
        IN  command' =
              NextIteration(
                [command EXCEPT
                   !.invocations = Append(@, call),
                   !.objects = Assigned(@, event, assignment)])

NextShared ==
    \/ ConfigIncomplete /\ UNCHANGED << streamVars, db >>
    \/ NoHandlers /\ UNCHANGED << streamVars, db >>
    \/ MainStarts /\ UNCHANGED << streamVars, db >>
    \/ RunOnceBuilds /\ UNCHANGED << streamVars, db >>
    \/ ProcessTransactionShared /\ UNCHANGED << streamVars, db >>
    \/ Sleep /\ UNCHANGED << streamVars, db >>
    \/ KeyboardInterrupt /\ UNCHANGED << streamVars, db >>

SpecShared == InitDispatch /\ [][NextShared]_vars

\* ------------------------------------------------------ setup_handlers
\* The handlers section of a configuration: per sink whether it is enabled,
\* and its required key (host, smtp_host, url, topic): missing, the empty
\* string, or a text.
HandlersConfigs ==
    [Sinks -> [enabled : BOOLEAN, key : {"missing", "", "x"}]]

\* email.py:12-30  EmailHandler.__init__ checks nothing; mqtt.py:33-34,
\* webhook.py and ntfy.py raise ValueError on an empty host, url or topic.
Validates(sink) == sink # 2

\* __main__.py:194-200, 210-217, 226, 235-238  the constructor call returns:
\* the required key is there (else KeyError) and passes __init__'s check
\* (else ValueError).
Constructs(sink, section) ==
    /\ section.key # "missing"
    /\ Validates(sink) => section.key # ""

\* A setup_handlers that lets the constructor's exception end it: the
\* handlers built so far are what remains.
RECURSIVE setup_handlers_aborts(_, _, _)
setup_handlers_aborts(config, sink, handlers) ==
    IF sink > NumSinks THEN handlers
    ELSE IF ~config[sink].enabled
    THEN setup_handlers_aborts(config, sink + 1, handlers)
    ELSE IF Constructs(sink, config[sink])
    THEN setup_handlers_aborts(config, sink + 1, Append(handlers, sink))
    ELSE handlers

\* __main__.py:185-246  setup_handlers from the block of one sink on: an
\* enabled sink is constructed and appended; when the constructor raises, the
\* except clause logs and the next block follows.
RECURSIVE setup_handlers(_, _, _)
setup_handlers(config, sink, handlers) ==
    IF sink > NumSinks THEN handlers
    ELSE IF ~config[sink].enabled
    THEN setup_handlers(config, sink + 1, handlers)
    ELSE IF Constructs(sink, config[sink])
    THEN setup_handlers(config, sink + 1, Append(handlers, sink))
    ELSE setup_handlers(config, sink + 1, handlers)

\* __main__.py:260-262  stream is entered with a loaded configuration; no
\* handler is built yet.
InitSetup ==
    /\ NoClient
    /\ db = NoRepository
    /\ \E config_ok \in BOOLEAN : \E config \in HandlersConfigs :
        \E loop \in BOOLEAN :
            command = [NoStreamCommand EXCEPT
                         !.config_ok = config_ok, !.handlers_config = config,
                         !.loop = loop, !.main_pc = "start"]

\* __main__.py:279-284  handlers = setup_handlers(config); without a handler
\* sys.exit(0), else on to the first run_once.
SetupHandlers ==
    /\ command.main_pc = "start"
    /\ command.config_ok
    /\ LET handlers == setup_handlers(command.handlers_config, 1, << >>)
       IN  command' =
             [command EXCEPT !.handlers = handlers, !.setup_done = TRUE,
                             !.main_pc = IF handlers = << >> THEN "exit_0"
                                         ELSE "run_once"]

NextSetup ==
    \/ ConfigIncomplete /\ UNCHANGED << streamVars, db >>
    \/ SetupHandlers /\ UNCHANGED << streamVars, db >>
    \/ RunOnce /\ UNCHANGED << streamVars, db >>
    \/ ProcessTransaction /\ UNCHANGED << streamVars, db >>
    \/ Sleep /\ UNCHANGED << streamVars, db >>
    \/ KeyboardInterrupt /\ UNCHANGED << streamVars, db >>

SpecSetup == InitSetup /\ [][NextSetup]_vars

\* ------------------------------------------------------ the repository
AccountIds == 1..MaxAccounts

\* tests/test_cli_run.py:170, 200  the balances of the update test.
Amounts == {1000, 1500}

\* One dict of an upsert list: its id and one more column. An id of None
\* stands for a dict without the key "id"; one such dict is enough.
AccountRecord ==
    [id : AccountIds, balance : Amounts] \cup { [id |-> None, balance |-> 1000] }
TransactionRecord ==
    [id : AccountIds, value : Amounts] \cup { [id |-> None, value |-> 1000] }

Payloads(Rec) == UNION { [1..n -> Rec] : n \in 0..MaxPayload }

\* A query that finds no row.
LookupFindsNothing(rows, id) == {}

\* db.py:385, 412  session.query(...).filter_by(id=...): the rows of the id,
\* pending rows of the session included (autoflush).
Lookup(rows, id) == { r \in rows : r.id = id }

\* An update branch that leaves the stored row as it is.
SetAttrsKeepsRow(rows, found, rec) == rows

\* db.py:386-388, 413-415  setattr of every key of the dict on the row found.
SetAttrs(rows, found, rec) == (rows \ found) \cup {rec}

\* db.py:390-397, 417-424 with the primary keys of db.py:105, 162: a new row
\* is added; the INSERT of a second row of an id is an IntegrityError.
AddRow(rows, rec) ==
    IF \E r \in rows : r.id = rec.id
    THEN [ok |-> FALSE, rows |-> rows]
    ELSE [ok |-> TRUE, rows |-> rows \cup {rec}]

\* db.py:384-398, 411-425  the for loop over the list, from position k on;
\* a dict without "id" is a KeyError.
RECURSIVE UpsertFrom(_, _, _)
UpsertFrom(rows, list, k) ==
    IF k > Len(list) THEN [ok |-> TRUE, rows |-> rows]
    ELSE IF list[k].id = None THEN [ok |-> FALSE, rows |-> rows]
    ELSE LET found == Lookup(rows, list[k].id)
             step == IF found # {}
                     THEN [ok |-> TRUE, rows |-> SetAttrs(rows, found, list[k])]
                     ELSE AddRow(rows, list[k])
         IN  IF step.ok THEN UpsertFrom(step.rows, list, k + 1) ELSE step

\* db.py:242-253  session_scope: commit, or rollback of the whole session when
\* the block raised.
Committed(rows, result) == IF result.ok THEN result.rows ELSE rows

\* db.py:403-428  upsert_accounts(list) on the repository d.
UpsertAccounts(d, list) ==
    LET result == UpsertFrom(d.account_rows, list, 1)
    IN  [d EXCEPT !.account_rows = Committed(@, result),
                  !.raised = ~result.ok,
                  !.db_call = "upsert_accounts"]

\* db.py:376-401  upsert_transactions(list) on the repository d.
UpsertTransactions(d, list) ==
    LET result == UpsertFrom(d.transaction_rows, list, 1)
    IN  [d EXCEPT !.transaction_rows = Committed(@, result),
                  !.raised = ~result.ok,
                  !.db_call = "upsert_transactions"]

\* What is known of an upsert call that led from d to after: its list, and
\* whether it repeats the call before it, which succeeded.
Observed(d, after, list) ==
    [after EXCEPT !.payload = list,
                  !.repeated = (d.db_call = after.db_call /\ d.payload = list
                                /\ ~d.raised)]

\* The two methods work on different tables (db.py:385, 412): a run of
\* SpecUpsert calls one of them, again and again.
InitUpsert ==
    /\ NoClient
    /\ command = NoStreamCommand
    /\ db = NoRepository

CallUpsertAccounts ==
    /\ db.db_call \in {"none", "upsert_accounts"}
    /\ \E list \in Payloads(AccountRecord) :
        db' = Observed(db, UpsertAccounts(db, list), list)

CallUpsertTransactions ==
    /\ db.db_call \in {"none", "upsert_transactions"}
    /\ \E list \in Payloads(TransactionRecord) :
        db' = Observed(db, UpsertTransactions(db, list), list)

NextUpsert ==
    \/ CallUpsertAccounts /\ UNCHANGED << streamVars, command >>
    \/ CallUpsertTransactions /\ UNCHANGED << streamVars, command >>

SpecUpsert == InitUpsert /\ [][NextUpsert]_vars

\* -------------------------------------------------- balance snapshots
Times == 1..MaxTime

\* db.py:439-463  what a caller may hand over as last_update: an ISO string,
\* a number, a datetime, or a string that is neither ISO nor a number; `at`
\* is the moment the value denotes. The moments are naive datetimes, as in
\* tests/conftest.py:212.
LastUpdates == [kind : {"iso", "number", "datetime", "text"}, at : Times]

\* db.py:446-463  last_update is brought to a datetime; None stands for the
\* ValueError of a string that cannot be read.
Normalize(last_update) ==
    IF last_update.kind = "text" THEN None ELSE last_update.at

\* A comparison that never finds the stored moment equal.
SameSnapshotNever(existing, last_dt) == FALSE

\* db.py:469  existing and existing.last_update == last_dt
SameSnapshot(existing, last_dt) ==
    \E r \in existing : r.last_update = last_dt

\* db.py:473-482 with the unique account_id of db.py:201: a new row is added;
\* the INSERT of a second row of an account is an IntegrityError.
AddBalance(rows, row) ==
    IF \E r \in rows : r.account_id = row.account_id
    THEN [ok |-> FALSE, rows |-> rows]
    ELSE [ok |-> TRUE, rows |-> rows \cup {row}]

\* db.py:439-483  upsert_account_balance(account_id, balance, coming_balance,
\* last_update) on the repository d; balance stands for both amounts.
UpsertAccountBalance(d, account_id, balance, last_update) ==
    LET last_dt == Normalize(last_update)
        existing == { r \in d.balance_rows : r.account_id = account_id }
        result == AddBalance(d.balance_rows,
                             [account_id |-> account_id, balance |-> balance,
                              last_update |-> last_dt])
        called == [d EXCEPT !.db_call = "upsert_account_balance",
                            !.balance_args = [account_id |-> account_id,
                                              last_update |-> last_dt]]
    IN  IF last_dt = None
        THEN [called EXCEPT !.raised = TRUE, !.added = FALSE]
        ELSE IF existing # {} /\ SameSnapshot(existing, last_dt)
        THEN [called EXCEPT !.raised = FALSE, !.added = FALSE]
        ELSE [called EXCEPT !.added = TRUE,
                            !.balance_rows = Committed(@, result),
                            !.raised = ~result.ok]

InitBalance ==
    /\ NoClient
    /\ command = NoStreamCommand
    /\ db = NoRepository

CallUpsertAccountBalance ==
    \E account_id \in AccountIds : \E balance \in Amounts :
        \E last_update \in LastUpdates :
            db' = UpsertAccountBalance(db, account_id, balance, last_update)

NextBalance ==
    \/ CallUpsertAccountBalance /\ UNCHANGED << streamVars, command >>

SpecBalance == InitBalance /\ [][NextBalance]_vars

\* ------------------------------------------------- one cycle of writes
\* A cycle hands the accounts it received to upsert_accounts and then the
\* transactions to upsert_transactions; a call that raises ends the cycle.
InitCycle ==
    /\ NoClient
    /\ command = NoStreamCommand
    /\ db = [NoRepository EXCEPT !.db_pc = "idle"]

BeginCycle ==
    /\ db.db_pc = "idle"
    /\ db' = [db EXCEPT !.db_pc = "accounts", !.cycle_wrote = FALSE,
                        !.raised = FALSE]

CycleUpsertAccounts ==
    /\ db.db_pc = "accounts"
    /\ \E list \in Payloads(AccountRecord) :
        LET after == UpsertAccounts(db, list)
        IN  db' = [after EXCEPT
                     !.cycle_wrote = (after.account_rows # db.account_rows),
                     !.db_pc = IF after.raised THEN "idle" ELSE "transactions"]

CycleUpsertTransactions ==
    /\ db.db_pc = "transactions"
    /\ \E list \in Payloads(TransactionRecord) :
        LET after == UpsertTransactions(db, list)
        IN  db' = [after EXCEPT
                     !.cycle_wrote =
                         (@ \/ after.transaction_rows # db.transaction_rows),
                     !.db_pc = "idle"]

NextCycle ==
    \/ BeginCycle /\ UNCHANGED << streamVars, command >>
    \/ CycleUpsertAccounts /\ UNCHANGED << streamVars, command >>
    \/ CycleUpsertTransactions /\ UNCHANGED << streamVars, command >>

SpecCycle == InitCycle /\ [][NextCycle]_vars

\* ------------------------------------------------- scopes and their caches
\* Strings are sequences of characters; two characters are enough to tell
\* the strings of client_id and client_secret apart.
Alphabet == {"a", ":"}

Texts == UNION { [1..n -> Alphabet] : n \in 1..MaxText }

Domains == {"one", "two"}

\* client.py:23-27  the arguments of PowensClient(domain, client_id,
\* client_secret).
Scopes == [domain : Domains, client_id : Texts, client_secret : Texts]

\* client.py:36  f"{client_id}:{client_secret}"
hash_input(client_id, client_secret) == client_id \o << ":" >> \o client_secret

\* client.py:37  hashlib.md5(hash_input).hexdigest(): a digest per input; no
\* two of the short inputs here have the same digest, so the input stands
\* for its digest.
hexdigest(text) == text

\* client.py:38, cache.py:31-36  Cache(domain, cache_key): the cache file is
\* cache_dir/domain/cache_key/cache.db.
cache_dir(scope) ==
    << scope.domain, hexdigest(hash_input(scope.client_id, scope.client_secret)) >>

\* client.py:23-39  two PowensClient objects are constructed; the cache files
\* of their directories hold no checkpoint yet.
InitScope ==
    /\ NoGenerator
    /\ command = NoStreamCommand
    /\ db = NoRepository
    /\ \E first \in Scopes : \E second \in Scopes :
        client = [NewClient EXCEPT
                    !.instances = << first, second >>,
                    !.files = [d \in {cache_dir(first), cache_dir(second)}
                                  |-> None]]

\* client.py:331, 409, 480  a cycle of instance i reads the checkpoint id of
\* its cache, yields a transaction with a greater id and stores that id.
RunCycleOf(i) ==
    LET file == cache_dir(client.instances[i])
    IN  \E transaction_id \in Ids :
            /\ ~AlreadyProcessed(transaction_id, client.files[file])
            /\ client' = [client EXCEPT
                             !.files[file] = NewMaxId(transaction_id, @),
                             !.ran = i]

NextScope ==
    \/ RunCycleOf(1) /\ UNCHANGED << generatorVars, command, db >>
    \/ RunCycleOf(2) /\ UNCHANGED << generatorVars, command, db >>

SpecScope == InitScope /\ [][NextScope]_vars

\* ---------------------------------------------------------------- claims
\* The transactions the generator has yielded so far in this cycle.
Yielded == SubSeq(new_transactions, 1, yielded_count)

IdsOf(txs) == { txs[i].id : i \in 1..Len(txs) }

DatesOf(txs) == { txs[i].date : i \in 1..Len(txs) }

MaxOf(S) == CHOOSE x \in S : \A y \in S : y <= x

\* The generator has yielded its whole batch and the consumer handled it.
FullyConsumed == pc = "loop" /\ yielded_count = Len(new_transactions)

\* The consumer has handed the transaction to every handler in this cycle.
Dispatched(transaction_id) == \A s \in Sinks : << transaction_id, s >> \in calls

\* The next cycle's checkpoint filter (client.py:409) would drop the id.
Covered(transaction_id, checkpoint_id) ==
    checkpoint_id # None /\ transaction_id <= checkpoint_id

\* C1: over any sequence of cycles, fully or partially consumed, neither the
\* cached last_transaction_id nor the cached last_transaction_date decreases
\* in any step.
C1_CheckpointNeverDecreases ==
    [][ /\ cache'.last_transaction_id >= cache.last_transaction_id
        /\ cache'.last_transaction_date >= cache.last_transaction_date ]_vars

\* C1 witness: a cycle that started from a stored checkpoint has advanced it
\* over a batch of two transactions.
C1_Witness ==
    /\ FullyConsumed
    /\ Len(new_transactions) >= 2
    /\ last_transaction_id # None
    /\ cache.last_transaction_id > last_transaction_id

\* C2 (as claimed): the stored checkpoint covers a transaction of the batch
\* only after the consumer has received it and handed it to every handler.
C2_CheckpointBehindProcessed ==
    pc \in {"loop", "write_date", "yielded"} =>
        \A i \in 1..Len(new_transactions) :
            Covered(new_transactions[i].id, cache.last_transaction_id)
                => Dispatched(new_transactions[i].id)

\* C3 (as claimed): when a cycle ends before a transaction it collected as new
\* was handled by the consumer, the stored checkpoint lets the next run yield
\* that transaction again.
C3_InterruptedBatchIsRefetched ==
    [][ (pc # "idle" /\ pc' = "idle") =>
            \A i \in 1..Len(new_transactions) :
                ~Dispatched(new_transactions[i].id)
                    => ~Covered(new_transactions[i].id,
                                cache'.last_transaction_id) ]_vars

\* C4 (as claimed): when the consumer raises while it handles a yielded
\* transaction, the stored checkpoint is the one read at the start of the
\* cycle.
C4_FailedCycleKeepsCheckpoint ==
    [][ (pc = "yielded" /\ pc' = "idle") =>
            /\ cache'.last_transaction_id = last_transaction_id
            /\ cache'.last_transaction_date = last_transaction_date ]_vars

\* C5 (as claimed): between cycles, every remote transaction that no cycle has
\* collected yet passes the next cycle's checkpoint filter, so it will be
\* yielded.
C5_NoSilentLoss ==
    pc = "idle" =>
        \A i \in 1..Len(remote) :
            remote[i].id \notin everNew
                => ~Covered(remote[i].id, cache.last_transaction_id)

\* C6: with an identifier checkpoint, no yielded transaction has an id <= the
\* checkpoint, and a fully consumed cycle has yielded exactly the fetched ids
\* that are > the checkpoint.
C6_YieldsExactlyAboveCheckpoint ==
    last_transaction_id # None =>
        /\ \A i \in 1..Len(Yielded) : Yielded[i].id > last_transaction_id
        /\ FullyConsumed =>
              IdsOf(Yielded) = { fetched[i].id : i \in
                    { k \in 1..Len(fetched) :
                          fetched[k].id > last_transaction_id } }

\* C6 witness: a fully consumed cycle fetched ids below, at and above its
\* checkpoint.
C6_Witness ==
    /\ FullyConsumed
    /\ last_transaction_id # None
    /\ \E i, j, k \in 1..Len(fetched) :
          /\ fetched[i].id < last_transaction_id
          /\ fetched[j].id = last_transaction_id
          /\ fetched[k].id > last_transaction_id

\* The first record of a sequence that carries the identifier.
FirstOccurrence(txs, transaction_id) ==
    txs[CHOOSE k \in 1..Len(txs) :
            /\ txs[k].id = transaction_id
            /\ \A m \in 1..(k - 1) : txs[m].id # transaction_id]

\* C7: within one cycle no identifier is yielded twice, and each yielded
\* record is the first record with its identifier in fetch order.
C7_YieldedOncePerId ==
    /\ \A i, j \in 1..Len(Yielded) : i # j => Yielded[i].id # Yielded[j].id
    /\ \A i \in 1..Len(Yielded) :
          Yielded[i] = FirstOccurrence(fetched, Yielded[i].id)

\* C7 witness: an identifier came three times with different dates, on one
\* page and again on the next page, and the cycle was fully consumed.
C7_Witness ==
    /\ FullyConsumed
    /\ limit = 2
    /\ Len(fetched) = 3
    /\ fetched[1].id = fetched[2].id
    /\ fetched[1].id = fetched[3].id
    /\ fetched[1].date # fetched[2].date
    /\ fetched[1].date > fetched[3].date
    /\ Len(Yielded) = 1

\* C8: the transactions of a cycle are yielded in ascending (date, id) order.
C8_YieldedInDateIdOrder ==
    \A i, j \in 1..Len(Yielded) :
        i < j => \/ Yielded[i].date < Yielded[j].date
                 \/ /\ Yielded[i].date = Yielded[j].date
                    /\ Yielded[i].id <= Yielded[j].id

\* C8 witness: three transactions were fetched in the order 2, 1, 3 over two
\* pages, the one fetched second being the oldest, and were yielded 1, 2, 3.
C8_Witness ==
    /\ FullyConsumed
    /\ Len(fetched) = 3
    /\ limit = 2
    /\ << fetched[1].id, fetched[2].id, fetched[3].id >> = << 2, 1, 3 >>
    /\ fetched[2].date < fetched[1].date
    /\ Len(Yielded) = 3
    /\ << Yielded[1].id, Yielded[2].id, Yielded[3].id >> = << 1, 2, 3 >>

EmptyCycle == pc = "loop" /\ new_transactions = << >>

\* C10: a cycle whose new-transaction set is empty invokes no handler and
\* writes no checkpoint key: when the fetch ends with an empty set the cache
\* holds what the cycle read, untouched, and the rest of the cycle neither
\* writes the cache nor calls process_transaction.
C10_EmptyCycleHasNoEffect ==
    [][ /\ EmptyCycle' =>
              /\ calls' = {}
              /\ cacheWrites' = 0
              /\ cache'.last_transaction_id = last_transaction_id'
              /\ cache'.last_transaction_date = last_transaction_date'
        /\ EmptyCycle =>
              /\ cache' = cache
              /\ cacheWrites' <= cacheWrites
              /\ calls' \subseteq calls ]_vars

\* C10 witness: a cycle with a stored checkpoint fetched records, found none
\* of them new, and is at its end.
C10_Witness ==
    /\ EmptyCycle
    /\ fetched # << >>
    /\ cache.last_transaction_id # None
    /\ cache.last_transaction_date # None
\* C11: while a cycle is fetching it has yielded nothing and written nothing,
\* and when it ends there (a page request fails, on the first or on a later
\* page) the stored checkpoint is the one the cycle read at its start.
C11_FailedFetchCommitsNothing ==
    [][ /\ pc = "fetch" =>
              /\ yielded_count = 0
              /\ calls = {}
              /\ cacheWrites = 0
        /\ (pc = "fetch" /\ pc' = "idle") =>
              /\ cache'.last_transaction_id = last_transaction_id
              /\ cache'.last_transaction_date = last_transaction_date ]_vars

\* C11 witness: a fetch failed after an earlier page had brought transactions
\* that were collected as new; the cache still has no checkpoint.
C11_Witness ==
    /\ pc = "idle"
    /\ lastCycle = "fetch_failed"
    /\ everNew # {}
    /\ Len(remote) >= 2
    /\ cache.last_transaction_id = None
    /\ cache.last_transaction_date = None

CallsOf(c, e, s) ==
    { k \in DOMAIN command.invocations :
        /\ command.invocations[k].cycle = c
        /\ command.invocations[k].event = e
        /\ command.invocations[k].sink = s }

\* run_once number c has run to its end.
CycleDone(c) ==
    \/ c < command.cycle
    \/ c = command.cycle /\ command.main_pc \in {"run_once", "sleep", "returned"}

\* C12: once a run_once has run to its end, every configured sink has been
\* called for every event of that cycle, whatever the other sinks' calls did:
\* a raising sink stops neither the sinks after it nor the events and cycles
\* after it, and a sink that never raised has every event exactly once.
C12_EverySinkGetsEveryEvent ==
    \A c \in 1..command.cycle :
        CycleDone(c) =>
            \A e \in 1..Len(demo_transactions) :
                \A i \in 1..Len(command.handlers) :
                    Cardinality(CallsOf(c, e, command.handlers[i])) = 1

\* C12 witness: two sinks, the first raised on each of its calls, the second
\* never did; two cycles are done and the second sink was called in both.
C12_Witness ==
    /\ Len(command.handlers) = 2
    /\ command.cycle = 2
    /\ CycleDone(2)
    /\ \A k \in DOMAIN command.invocations :
           command.invocations[k].ok
               = (command.invocations[k].sink = command.handlers[2])
    /\ CallsOf(1, 1, command.handlers[1]) # {}
    /\ CallsOf(1, 1, command.handlers[2]) # {}
    /\ CallsOf(2, 1, command.handlers[2]) # {}

\* C13: at every moment, no sink has been called more than once for the same
\* event of the same cycle; in particular a call that raised is not repeated.
C13_AtMostOncePerEventAndSink ==
    \A k1 \in DOMAIN command.invocations :
        \A k2 \in DOMAIN command.invocations :
            ( /\ command.invocations[k1].cycle = command.invocations[k2].cycle
              /\ command.invocations[k1].event = command.invocations[k2].event
              /\ command.invocations[k1].sink = command.invocations[k2].sink )
            => k1 = k2

\* C13 witness: a sink's call raised, and the cycle went on to its end.
C13_Witness ==
    /\ command.cycle = 1
    /\ CycleDone(1)
    /\ \E k \in DOMAIN command.invocations : ~command.invocations[k].ok

\* C14: a transaction that was dispatched in one cycle is not dispatched in
\* another cycle (the remote data never changes in this specification).
C14_NotDispatchedAgainNextCycle ==
    \A k1 \in DOMAIN command.invocations :
        \A k2 \in DOMAIN command.invocations :
            command.invocations[k1].transaction
                    = command.invocations[k2].transaction
                => command.invocations[k1].cycle = command.invocations[k2].cycle

\* The table the last upsert call worked on, before and after the call.
TableBefore == IF db'.db_call = "upsert_accounts" THEN db.account_rows
               ELSE db.transaction_rows
TableAfter == IF db'.db_call = "upsert_accounts" THEN db'.account_rows
              ELSE db'.transaction_rows

\* The ids of a list of dicts, and the dict given last for an id.
IdsIn(list) == { list[k].id : k \in DOMAIN list }
LastFor(list, id) ==
    list[CHOOSE k \in DOMAIN list :
            /\ list[k].id = id
            /\ \A j \in DOMAIN list : list[j].id = id => j <= k]

\* C16: an upsert call that repeats the successful call before it, with the
\* same list, does not fail and leaves both tables as they were; and after
\* any successful call, a dict that the list holds once or several times
\* the same is stored as exactly one row, with the dict's values.
C16_UpsertIsIdempotent ==
    [][ /\ db'.repeated =>
              /\ ~db'.raised
              /\ db'.account_rows = db.account_rows
              /\ db'.transaction_rows = db.transaction_rows
        /\ ~db'.raised =>
              \A k \in DOMAIN db'.payload :
                  (\A j \in DOMAIN db'.payload :
                       db'.payload[j].id = db'.payload[k].id
                           => db'.payload[j] = db'.payload[k])
                  => { r \in TableAfter : r.id = db'.payload[k].id }
                         = { db'.payload[k] } ]_vars

\* C16 witness: a list holding the same dict twice was applied twice in a
\* row without an error; the table has that one row.
C16_Witness ==
    /\ db.repeated
    /\ ~db.raised
    /\ db.db_call = "upsert_transactions"
    /\ Len(db.payload) = 2
    /\ db.payload[1] = db.payload[2]
    /\ db.transaction_rows = { db.payload[1] }

\* C17: after a successful upsert call the ids of the table are the ids it
\* had plus the ids of the list, every id of the list reads back with the
\* values given last for it, and the rows of all other ids are untouched.
C17_UpsertInsertsOrOverwrites ==
    [][ ~db'.raised =>
          /\ { r.id : r \in TableAfter }
                 = { r.id : r \in TableBefore } \cup IdsIn(db'.payload)
          /\ \A id \in IdsIn(db'.payload) :
                 \A r \in TableAfter :
                     r.id = id => r = LastFor(db'.payload, id)
          /\ \A r \in TableBefore :
                 r.id \notin IdsIn(db'.payload) => r \in TableAfter ]_vars

\* C17 witness: one call gave account 1 with balance 1000 and then with
\* balance 1500: the row was inserted, then overwritten, and reads 1500.
C17_Witness ==
    /\ db.db_call = "upsert_accounts"
    /\ ~db.raised
    /\ db.payload
           = << [id |-> 1, balance |-> 1000], [id |-> 1, balance |-> 1500] >>
    /\ db.account_rows = { [id |-> 1, balance |-> 1500] }

\* The snapshots stored for the account of the last upsert_account_balance
\* call, before and after the call.
SnapshotsBefore ==
    { r \in db.balance_rows : r.account_id = db'.balance_args.account_id }
SnapshotsAfter ==
    { r \in db'.balance_rows : r.account_id = db'.balance_args.account_id }

\* C18: a call of upsert_account_balance whose account has a stored snapshot
\* of the same last_update writes nothing: it does not reach session.add, it
\* does not fail, and the rows of the table are the same as before it.
C18_SameSnapshotWritesNothing ==
    [][ (\E r \in SnapshotsBefore :
             r.last_update = db'.balance_args.last_update) =>
          /\ ~db'.added
          /\ ~db'.raised
          /\ db'.balance_rows = db.balance_rows
          /\ Cardinality(SnapshotsAfter) = Cardinality(SnapshotsBefore) ]_vars

\* C18 witness: the last call found the snapshot of its account with its
\* last_update stored and returned it.
C18_Witness ==
    /\ db.db_call = "upsert_account_balance"
    /\ ~db.added
    /\ ~db.raised
    /\ \E r \in db.balance_rows :
           /\ r.account_id = db.balance_args.account_id
           /\ r.last_update = db.balance_args.last_update

\* C19: a call of upsert_account_balance with a last_update later than the
\* snapshot stored for its account succeeds, keeps that snapshot and adds one:
\* the account has one history entry more.
C19_LaterSnapshotIsAdded ==
    [][ \A r \in SnapshotsBefore :
            r.last_update < db'.balance_args.last_update =>
              /\ ~db'.raised
              /\ r \in db'.balance_rows
              /\ Cardinality(SnapshotsAfter)
                     = Cardinality(SnapshotsBefore) + 1 ]_vars

\* C20: when a call of a cycle has raised, nothing that the calls of that
\* cycle wrote is in the repository: no call of the cycle committed a change.
C20_FailedCycleLeavesNoWrite ==
    (db.db_pc = "idle" /\ db.raised) => ~db.cycle_wrote

\* The positions of stream between its first run_once and its end.
Running == {"run_once", "dispatch", "sleep"}

\* C24: in loop mode, whatever the sinks' calls of a cycle do, the cycle is
\* followed by the sleep and the sleep by the next cycle unless the program is
\* interrupted; the only step that ends a looping program is the interrupt,
\* which leads to exit code 0 and calls no sink.
C24_LoopSurvivesBadCycles ==
    /\ [][ (command.loop /\ command.main_pc \in Running) =>
              /\ (command.main_pc = "dispatch" /\ command'.main_pc # "dispatch")
                    => command'.main_pc \in {"sleep", "exit_0"}
              /\ command'.main_pc \notin Running =>
                    /\ command'.main_pc = "exit_0"
                    /\ command'.invocations = command.invocations ]_vars
    /\ \A n \in 1..(MaxCycles - 1) :
          (command.loop /\ command.cycle = n /\ command.main_pc = "dispatch")
              ~> \/ command.main_pc = "exit_0"
                 \/ (command.cycle = n + 1 /\ command.sleeps = n)

\* C24 witness: in loop mode every call of the first cycle raised, for two
\* sinks, and the second cycle is dispatching.
C24_Witness ==
    /\ command.loop
    /\ Len(command.handlers) = 2
    /\ command.cycle = 2
    /\ command.main_pc = "dispatch"
    /\ Len(command.invocations) >= 2
    /\ \A k \in DOMAIN command.invocations :
           command.invocations[k].cycle = 1 => ~command.invocations[k].ok

\* C25: a run_once starts only when the run_once before it has called every
\* sink for every event and a sleep has returned since: at the start of cycle
\* n + 1 exactly n sleeps have returned, one after each earlier cycle, and the
\* first cycle starts before any sleep.
C25_CyclesDoNotOverlap ==
    [][ command'.cycle # command.cycle =>
          /\ command'.cycle = command.cycle + 1
          /\ command.main_pc = "run_once"
          /\ command.sleeps = command.cycle
          /\ command.cycle >= 1 =>
                \A e \in 1..Len(demo_transactions) :
                    \A i \in 1..Len(command.handlers) :
                        \E k \in DOMAIN command.invocations :
                            /\ command.invocations[k].cycle = command.cycle
                            /\ command.invocations[k].event = e
                            /\ command.invocations[k].sink = command.handlers[i]
        ]_vars

\* C25 witness: the third cycle has started after two sleeps, with two sinks.
C25_Witness ==
    /\ command.cycle = 3
    /\ command.sleeps = 2
    /\ command.main_pc = "dispatch"
    /\ Len(command.handlers) = 2

\* C26: stream ends with exit code 1 exactly for a bank_client configuration
\* that lacks a key, and then before setup_handlers has built a handler, before
\* any run_once and before any process_transaction call; with an incomplete
\* configuration it goes nowhere else, with a complete one it never ends so.
C26_IncompleteConfigAbortsAtStartup ==
    /\ command.main_pc = "exit_1" =>
          /\ ~command.config_ok
          /\ ~command.setup_done
          /\ command.cycle = 0
          /\ command.invocations = << >>
    /\ ~command.config_ok => command.main_pc \in {"start", "exit_1"}
    /\ command.config_ok => command.main_pc # "exit_1"

\* C26 witness: a configuration with two enabled handlers and --loop, but an
\* incomplete bank_client section, has ended with exit code 1.
C26_Witness ==
    /\ command.main_pc = "exit_1"
    /\ Len(command.handlers) = 2
    /\ command.loop

\* The requests made for the page whose request failed and ended the cycle.
AttemptsOfFailedRequest == client.request_count - client.pages

\* C21 (as claimed): a page request that failed transiently (timeout, 5xx,
\* connection error) has been attempted again, two or three times in all,
\* when its failure ends the cycle; one that failed with a 4xx status has been
\* attempted exactly once.
C21_TransientFailureIsRetried ==
    /\ client.failure \in Transient => AttemptsOfFailedRequest \in 2..3
    /\ client.failure = "4xx" => AttemptsOfFailedRequest = 1

\* C22 (as claimed): when a cycle has ended on a request rejected for
\* authentication, the client has refreshed its credentials exactly once and
\* has sent the request a second time.
C22_AuthFailureRefreshesOnce ==
    client.failure = "401" =>
        /\ client.refreshes = 1
        /\ AttemptsOfFailedRequest = 2

\* C23 (as claimed): when the pagination loop has ended, no further page was
\* linked, and every transaction the server holds for the request has been
\* received and examined.
C23_FollowsEveryNextLink ==
    pc \in {"loop", "write_date", "yielded"} =>
        /\ client.stopped_by \in {"empty", "no_next"}
        /\ fetched = Served(remote, client.params)

\* The checkpoint a cycle stores when its whole batch has been yielded.
WholeBatchCheckpoint ==
    [last_transaction_id |->
         MaxOf(IdsOf(new_transactions) \cup {last_transaction_id}),
     last_transaction_date |->
         MaxOf(DatesOf(new_transactions) \cup {last_transaction_date})]

\* The checkpoint the cycle read at its start.
StartCheckpoint ==
    [last_transaction_id |-> last_transaction_id,
     last_transaction_date |-> last_transaction_date]

\* C27 (as claimed): when a cycle ends while its transactions are being
\* consumed, the stored checkpoint is the one read at the start of the cycle
\* or the one of the whole batch.
C27_NoPartialCheckpointOnShutdown ==
    [][ (pc \in {"loop", "write_date", "yielded"} /\ pc' = "idle") =>
            cache' \in {StartCheckpoint, WholeBatchCheckpoint} ]_vars

\* C28 (as claimed): a cycle stores its checkpoint once, when all its new
\* transactions have been yielded: it sets each of the two keys at most once,
\* and the cache holds the checkpoint read at the start until then.
C28_CheckpointWrittenOncePerCycle ==
    /\ pc # "idle" => cacheWrites <= 2
    /\ (pc \in {"loop", "write_date", "yielded"}
            /\ yielded_count < Len(new_transactions)) => cacheWrites = 0

\* C30 (as claimed): the request carries min_date exactly when the checkpoint
\* read has a date and no id, with the day before that date; and the new
\* transactions of such a cycle that are still to be yielded are none of
\* those the consumer has handled before.
C30_DateOnlyCheckpointWidensWindow ==
    pc # "idle" =>
        /\ client.params.has_min_date
              = (last_transaction_date # None /\ last_transaction_id = None)
        /\ client.params.has_min_date =>
              /\ client.params.min_date = last_transaction_date - 1
              /\ pc = "loop" =>
                    \A i \in (yielded_count + 1)..Len(new_transactions) :
                        new_transactions[i].id \notin client.delivered

\* The checkpoint id that instance j reads, in a state of the cache files.
CheckpointOf(files, j) == files[cache_dir(client.instances[j])]

\* C29 (as claimed): a cycle of one instance leaves the checkpoint of every
\* instance of another (domain, client_id, client_secret) as it was, and two
\* instances of the same triple read the same checkpoint.
C29_CheckpointsAreScopedPerTriple ==
    [][ \A i \in 1..2 : \A j \in 1..2 :
          /\ (client'.ran = i /\ client.instances[j] # client.instances[i])
                => CheckpointOf(client'.files, j) = CheckpointOf(client.files, j)
          /\ client.instances[j] = client.instances[i]
                => CheckpointOf(client'.files, j) = CheckpointOf(client'.files, i)
      ]_vars

\* C33 (as claimed): every call that stream makes on the MQTT handler
\* publishes the transaction: none is rejected.
C33_MqttSinkPublishesEveryTransaction ==
    \A k \in DOMAIN command.invocations :
        command.invocations[k].sink = MqttSink => command.invocations[k].ok

\* The state of the two-state machine after the first k calls of a log:
\* connected after an __enter__ that returned, disconnected after an
\* __enter__ that raised and after an __exit__.
RECURSIVE ConnectedAfter(_, _)
ConnectedAfter(log, k) ==
    IF k = 0 THEN FALSE
    ELSE IF log[k].op = "__enter__" THEN log[k].outcome = "returned"
    ELSE IF log[k].op = "__exit__" THEN FALSE
    ELSE ConnectedAfter(log, k - 1)

\* C34: the client attribute is set exactly when the handler is connected,
\* that is after an __enter__ that returned and before the next __exit__ or
\* failed __enter__; process_transaction publishes when connected and raises
\* ValueError when not, __exit__ returns when connected and raises ValueError
\* when not, and an __enter__ that fails raises ConnectionError.
C34_MqttHandlerIsTwoStateMachine ==
    LET log == command.mqtt.log
    IN  /\ command.mqtt.client = ConnectedAfter(log, Len(log))
        /\ \A k \in DOMAIN log :
              /\ log[k].op = "process_transaction" =>
                    log[k].outcome = IF ConnectedAfter(log, k - 1)
                                     THEN "published" ELSE "ValueError"
              /\ log[k].op = "__exit__" =>
                    log[k].outcome = IF ConnectedAfter(log, k - 1)
                                     THEN "returned" ELSE "ValueError"
              /\ log[k].op = "__enter__" =>
                    log[k].outcome \in {"returned", "ConnectionError"}

\* C34 witness: the handler was entered, published, was left, and then
\* rejected a transaction.
C34_Witness ==
    /\ Len(command.mqtt.log) = 4
    /\ command.mqtt.log[1] = [op |-> "__enter__", outcome |-> "returned"]
    /\ command.mqtt.log[2].outcome = "published"
    /\ command.mqtt.log[3] = [op |-> "__exit__", outcome |-> "returned"]
    /\ command.mqtt.log[4] =
           [op |-> "process_transaction", outcome |-> "ValueError"]
    /\ ~command.mqtt.client

\* C38: once setup_handlers has returned, the handler list holds exactly the
\* sinks that are enabled and whose constructor returned (the required key is
\* there and, but for the email sink, the second, not empty), each once and in
\* the fixed order of the sinks; and when the list is empty stream has exited
\* with status 0 without a cycle or a handler call.
C38_SetupHandlersKeepsWhatCouldBeBuilt ==
    command.setup_done =>
        LET handlers == command.handlers
            config == command.handlers_config
        IN  /\ \A s \in Sinks :
                  (\E k \in DOMAIN handlers : handlers[k] = s)
                      <=> /\ config[s].enabled
                          /\ config[s].key # "missing"
                          /\ (s # 2 => config[s].key # "")
            /\ \A i \in DOMAIN handlers : \A j \in DOMAIN handlers :
                  i < j => handlers[i] < handlers[j]
            /\ handlers = << >> =>
                  /\ command.main_pc = "exit_0"
                  /\ command.cycle = 0
                  /\ command.invocations = << >>

\* C38 witness: the first sink is enabled and its constructor raised, a later
\* sink was built and has been called in a cycle.
C38_Witness ==
    /\ command.setup_done
    /\ command.handlers_config[1].enabled
    /\ command.handlers_config[1].key = ""
    /\ command.handlers = << 2 >>
    /\ command.invocations # << >>

CallMade == client'.calls_made = client.calls_made + 1

\* C35 (as claimed): authenticate makes a request only without a cached
\* entry; and an authenticate that raised has left the 'authenticate' cache
\* entry and auth_token as they were.
C35_FailedAuthenticateCachesNothing ==
    [][(CallMade /\ client'.last_call.op = "authenticate") =>
          /\ client.authenticate # "absent" =>
                client'.requests = client.requests
          /\ client'.last_call.outcome # "returned" =>
                /\ client'.authenticate = client.authenticate
                /\ client'.auth_token = client.auth_token]_vars

\* C36: an operation or a first advance of stream_new_transactions made
\* without a token raises RuntimeError, makes no request and leaves the
\* checkpoint and every local of the generator untouched (no cycle starts);
\* with a token it does not raise RuntimeError; and an authenticate that
\* returned has set the token.
C36_OperationsNeedToken ==
    [][CallMade =>
          /\ (client'.last_call.op # "authenticate" /\ client.auth_token = "None")
                => /\ client'.last_call.outcome = "RuntimeError"
                   /\ client'.requests = client.requests
                   /\ client'.request_count = client.request_count
                   /\ UNCHANGED generatorVars
          /\ (client'.last_call.op # "authenticate" /\ client.auth_token # "None")
                => client'.last_call.outcome # "RuntimeError"
          /\ (client'.last_call.op = "authenticate"
              /\ client'.last_call.outcome = "returned")
                => client'.auth_token # "None"]_vars

\* C36 witness: a stream was refused before authenticate, and after an
\* authenticate that returned a cycle has started and read a checkpoint.
C36_Witness ==
    /\ client.calls_made >= 3
    /\ client.last_call =
           [op |-> "stream_new_transactions", outcome |-> "started"]
    /\ pc = "fetch"
    /\ last_transaction_id # None
    /\ client.requests = 1

\* C37 (as claimed): whatever the server answers, a pagination loop that has
\* started comes to its end.
C37_FetchPhaseTerminates == (pc = "fetch") ~> (pc # "fetch")

\* C32: a reset_streaming_state returns and leaves both checkpoint keys
\* absent, so that both getters return None, also when the keys were absent
\* before; and the stream that follows a reset sends no min_date, receives
\* the whole list of the server and yields every transaction it received,
\* each identifier once.
C32_ResetMakesNextStreamYieldAll ==
    [][CallMade =>
          /\ client'.last_call.op = "reset_streaming_state" =>
                /\ client'.last_call.outcome = "returned"
                /\ get_last_transaction_id(cache') = None
                /\ get_last_transaction_date(cache') = None
                /\ client'.reset_from = cache
          /\ (client.last_call.op = "reset_streaming_state"
              /\ client'.last_call.op = "stream_new_transactions") =>
                /\ ~client'.params.has_min_date
                /\ client'.received = remote
                /\ IdsOf(client'.yielded) = IdsOf(remote)
                /\ Len(client'.yielded) = Cardinality(IdsOf(remote))]_vars

\* C32 witness: a stream left a checkpoint, a reset deleted it, and the
\* stream after the reset has yielded two transactions again.
C32_Witness ==
    /\ client.calls_made = 3
    /\ client.last_call.op = "stream_new_transactions"
    /\ client.reset_from.last_transaction_id # None
    /\ client.reset_from.last_transaction_date # None
    /\ Len(client.yielded) >= 2
    /\ cache.last_transaction_id # None

\* What a map holds for a key after the first n calls of ops: the value of
\* the last set of the key when no delete of the key and no clear came
\* after it, and "absent" otherwise.
RECURSIVE Stored(_, _, _)
Stored(ops, n, key) ==
    IF n = 0 THEN "absent"
    ELSE IF ops[n].op = "clear" THEN "absent"
    ELSE IF ops[n].key = key /\ ops[n].op = "set" THEN ops[n].value
    ELSE IF ops[n].key = key /\ ops[n].op = "delete" THEN "absent"
    ELSE Stored(ops, n - 1, key)

\* C39: after any sequence of set, delete and clear, for every key: exists
\* tells whether the map holds the key, get returns the held value or else
\* the default, cache[key] returns the held value (None included) or raises
\* KeyError when the key is not held; and every delete returned True exactly
\* when the key was held at the time.
C39_CacheIsAMap ==
    LET c == client.store
    IN  /\ \A key \in Keys :
            LET held == Stored(c.ops, Len(c.ops), key)
            IN  /\ Cache_exists(c, key) =
                      IF held = "absent" THEN "False" ELSE "True"
                /\ Cache_get(c, key, "default") =
                      IF held = "absent" THEN "default" ELSE held
                /\ Cache_getitem(c, key) =
                      IF held = "absent" THEN "KeyError" ELSE held
        /\ \A n \in DOMAIN c.ops :
            LET before == Stored(c.ops, n - 1, c.ops[n].key)
            IN  c.ops[n].op = "delete" =>
                    c.ops[n].result =
                        IF before = "absent" THEN "False" ELSE "True"

\* C39 witness: a key was set, deleted with result True and set again to
\* None: it exists and cache[key] returns None.
C39_Witness ==
    LET c == client.store
    IN  /\ Len(c.ops) = 3
        /\ c.ops[1].op = "set" /\ c.ops[1].key = "k1"
        /\ c.ops[2].op = "delete" /\ c.ops[2].key = "k1"
        /\ c.ops[2].result = "True"
        /\ c.ops[3].op = "set" /\ c.ops[3].key = "k1"
        /\ c.ops[3].value = "None"
        /\ Cache_getitem(c, "k1") = "None"
        /\ Cache_exists(c, "k1") = "True"

\* C40 (as claimed): whatever with-blocks and close() calls came before, no
\* operation meets a closed store, and every key reads as the map holds it.
C40_ClosedCacheReopens ==
    LET c == client.store
    IN  /\ \A n \in DOMAIN c.ops : c.ops[n].result # "ValueError"
        /\ \A key \in Keys :
            LET held == Stored(c.ops, Len(c.ops), key)
            IN  Cache_get(c, key, "default") =
                    IF held = "absent" THEN "default" ELSE held
====
